---- MODULE Spec2Model ----
(***************************************************************************)
(* Synchronization engine of egdata-client (src-tauri/src/lib.rs): the     *)
(* mutex-guarded registry of installed games, the scanner, the upload      *)
(* pipeline with its persisted dedup set, and the tasks and commands that  *)
(* run them concurrently on the async runtime.                             *)
(*                                                                         *)
(* Granularity: one action per critical section and per suspension point   *)
(* (an .await on the network).  The blocking filesystem reads that precede *)
(* a critical section belong to its step: no task writes the files they    *)
(* read.  The GameStore mutex is a variable naming its holder; an action   *)
(* that locks it is enabled only while it is free.  The other mutexes      *)
(* guard sections that are one step each.                                  *)
(***************************************************************************)
EXTENDS Naturals, Sequences, FiniteSets, TLC

VARIABLES
    \* ---- the machine outside the process -------------------------------
    dirExists,      \* the manifests directory exists (get_manifests_path().exists())
    dir,            \* directory entry -> what the file holds
    blobs,          \* installation guids whose <install>/.egstore/<guid>.manifest is readable
    dedupFile,      \* uploaded_manifests.json
    diskChanges,    \* number of changes made to the disk so far (bounded)
    metaService,    \* how api.egdata.app answers GET /items/{id}: "up", "down",
                    \*   or "updated" (up, with the metadata edited since)
    \* ---- shared state of the process (run(), lib.rs 965-969) -----------
    games,          \* GameStore: app_name -> GameInfo
    gamesLock,      \* holder of the GameStore mutex, or Free
    metadata_cache, \* MetadataCache: catalog_item_id -> GameMetadata
    cacheLock,      \* holder of the MetadataCache mutex, or Free
    uploaded,       \* UploadedManifestSet: set of manifest hashes
    \* ---- tasks and commands --------------------------------------------
    pc,             \* position of every task / command
    todo,           \* scanner: descriptor files listed and not yet visited
    scanned,        \* scanner: Vec<GameInfo> built so far
    cur,            \* scanner: manifest whose metadata is being fetched
    ret,            \* scanner: how the last scan ended
    old_count,      \* scanner: games_lock.len() before clear()
    events,         \* last event emitted per task
    snapshot,       \* uploader: games_to_upload
    results,        \* uploader: Vec<UploadStatus>
    hash,           \* uploader: manifest_hash read from the .item file
    idx,            \* uploader: position in games_to_upload
    resp,           \* uploader: the response received (status and body)
    \* ---- settings and the two scheduler loops ---------------------------
    settings,       \* SettingsState: upload_interval (hours), scan_interval_minutes
    settingsFile,   \* settings.json: absent, or the settings last saved
    settingsLock,   \* holder of the settings mutex, or Free
    poisoned,       \* the mutexes whose holder panicked (std::sync::Mutex poisoning)
    current_interval_minutes, \* periodic_scan: the interval its timer was built for
    interval,       \* periodic_scan: its timer (tokio::time::Interval)
    next_upload,    \* periodic_upload: seconds the loop sleeps before the batch
    panics,         \* per scheduler loop: the panic that ended its task, or "none"
    \* ---- history -------------------------------------------------------
    committed,      \* the registry as it was when its mutex was last released
    scans,          \* the registries that the scans completed since the registry
                    \*   was last cleared would make
    began,          \* diskChanges when the task listed the directory / took its snapshot
    acked,          \* hashes an attempt completed for with uploaded / already_uploaded
                    \*   since the dedup set was last cleared
    cleared         \* hashes acknowledged before the dedup set was cleared

envVars  == <<dirExists, dir, blobs, dedupFile, diskChanges, metaService>>
regVars  == <<games, gamesLock, committed, scans>>
scanVars == <<todo, scanned, cur, ret, old_count>>
cacheVars == <<metadata_cache, cacheLock>>
upVars   == <<uploaded, snapshot, results, hash, idx, resp, acked, cleared>>
cfgVars  == <<settings, settingsFile, settingsLock, poisoned, current_interval_minutes,
             interval, next_upload, panics>>
vars == <<dirExists, dir, blobs, dedupFile, diskChanges, metaService, games,
          gamesLock, metadata_cache, uploaded, pc, todo, scanned, cur, ret,
          old_count, events, snapshot, results, hash, idx, resp, committed,
          scans, began, acked, cleared, settings, settingsFile, settingsLock, poisoned,
          current_interval_minutes, interval, next_upload, panics, cacheLock>>

-----------------------------------------------------------------------------
(* Bounds of the model *)

\* how many times the disk may change under the running process
MaxDiskChanges == 1

-----------------------------------------------------------------------------
(* Values *)

None   == "None"
Free   == "free"

Guids    == {"g1", "g2"}

\* one directory entry: <<file stem, extension>>
FileNames == {<<"g1", "item">>, <<"g2", "item">>, <<"g1", "bak">>}

\* The fields of EpicGameManifest the engine consumes, and one field standing
\* for the required fields it does not consume (FormatVersion, LaunchCommand, ...).
RequiredFields ==
    {"FormatVersion", "ManifestHash", "InstallationGuid", "InstallLocation",
     "CatalogItemId", "AppName"}

\* A descriptor as JSON: a function from the field names present to values.
Doc(g, a, c, h) ==
    [f \in RequiredFields |->
        CASE f = "FormatVersion"    -> "0"
          [] f = "ManifestHash"     -> h
          [] f = "InstallationGuid" -> g
          [] f = "InstallLocation"  -> "loc_" \o g
          [] f = "CatalogItemId"    -> c
          [] f = "AppName"          -> a]

Without(doc, field) == [f \in (DOMAIN doc) \ {field} |-> doc[f]]

\* What a path on disk may hold.
Absent     == [kind |-> "nofile"]
Unreadable == [kind |-> "unreadable"]
BadJson    == [kind |-> "badjson"]
Json(doc)  == [kind |-> "json", doc |-> doc]

\* The descriptors the launcher may have written for each installation.
\* The second installation may be another game, or a second copy of the first.
DocsOf(g) ==
    IF g = "g1"
    THEN {Doc("g1", "app1", "cat1", "h1")}
    ELSE {Doc("g2", "app2", "cat2", "h2"), Doc("g2", "app1", "cat1", "h1"),
          Without(Doc("g2", "app2", "cat2", "h2"), "ManifestHash")}

ContentsOf(f) ==
    CASE f = <<"g1", "item">> -> {Absent, BadJson} \cup {Json(d) : d \in DocsOf("g1")}
      [] f = <<"g2", "item">> -> {Absent, Unreadable} \cup {Json(d) : d \in DocsOf("g2")}
      [] OTHER                -> {BadJson}

-----------------------------------------------------------------------------
(* Tasks and commands *)

ScanProcs   == {"init", "pscan", "scannow"}
BatchProcs  == {"pupload", "upall"}
UploadProcs == BatchProcs \cup {"upone"}
LoopProcs   == {"pscan", "pupload"}
SetterProcs == {"setter", "setter2"}
Procs       == ScanProcs \cup UploadProcs \cup {"reader", "getter"} \cup SetterProcs


\* where a task goes when its scan-and-replace is over
EndOf(p) == CASE p = "pscan"   -> "tick"      \* loop { interval.tick().await; ... }
              [] p = "scannow" -> "idle"      \* the command returns
              [] p = "init"    -> "done"      \* the spawned task ends

-----------------------------------------------------------------------------
(* Settings, and the timers of the two scheduler loops *)

SecondsPerMinute == 60
SecondsPerHour   == 3600

\* load_settings_from_file: the defaults used when there is no settings file
DefaultUploadInterval      == 6
DefaultScanIntervalMinutes == 1
DefaultSettings ==
    [upload_interval       |-> DefaultUploadInterval,
     scan_interval_minutes |-> DefaultScanIntervalMinutes]

\* the intervals are u64; the model's unsigned integers end at MaxU64 and
\* HugeInterval is an interval whose number of seconds does not fit
MaxU64       == 1048575
HugeInterval == 1000

\* the settings the user interface can pass to set_settings
UploadIntervals == {0, DefaultUploadInterval, HugeInterval}
ScanIntervals   == {0, DefaultScanIntervalMinutes, 2}
SettingsValues  ==
    [upload_interval : UploadIntervals, scan_interval_minutes : ScanIntervals]

\* load_settings_from_file
LoadSettings(file) == IF file = <<>> THEN DefaultSettings ELSE file[1]

\* a * b on u64: the product overflows; a build without overflow checks wraps
Overflows(a, b)   == a * b > MaxU64
WrappingMul(a, b) == (a * b) % (MaxU64 + 1)

\* tokio::time::interval(period): the first tick of a new timer completes at
\* once (fresh), every later tick one period after the one before
Timer(period) == [period |-> period, fresh |-> TRUE]
\* the timer after interval.tick().await returned
Ticked(t) == [t EXCEPT !.fresh = FALSE]

\* the panics that end a scheduler task
ZeroPeriod     == "period must be non-zero"
PoisonedUnwrap == "called Result::unwrap() on an Err value: PoisonError"
MulOverflow    == "attempt to multiply with overflow"

\* periodic_scan up to its first scan: the interval is read, the timer is
\* built, its first tick completes at once and the interval, read again, is
\* the same
ScanLoopStart(stored) ==
    IF stored.scan_interval_minutes * SecondsPerMinute = 0
      THEN [at |-> "panicked", panic |-> ZeroPeriod]
      ELSE [at |-> "scan", panic |-> "none"]

-----------------------------------------------------------------------------
(* Manifest Reader and Scanner *)

Some(x)   == <<x>>
NoneOpt   == <<>>

\* fs::read / fs::read_to_string of a file of the manifests directory
ReadFile(f) == IF dirExists /\ dir[f].kind # "unreadable" THEN dir[f] ELSE Absent

\* serde_json::from_str::<EpicGameManifest>: every field of the struct is required
ParsesAsManifest(content) ==
    /\ content.kind = "json"
    /\ RequiredFields \subseteq DOMAIN content.doc

\* GameInfo { ... } built from the manifest and the fetched metadata
GameInfoOf(m, meta) ==
    [app_name          |-> m["AppName"],
     installation_guid |-> m["InstallationGuid"],
     install_location  |-> m["InstallLocation"],
     catalog_item_id   |-> m["CatalogItemId"],
     manifest_hash     |-> m["ManifestHash"],
     metadata          |-> meta]

\* StatusCode::is_success
IsSuccess(status) == status >= 200 /\ status < 300

\* what GET /items/{id} answers: a well-formed GameMetadata (the title as it
\* is on the server at that moment), or a failure: the request does not get
\* through, the status is not 2xx, or the body is not a GameMetadata
MetaBody(c, title) == [id |-> c, title |-> title]
MetaResponses(c) ==
    CASE metaService = "up" ->
            {[sent |-> TRUE, status |-> 200, json |-> TRUE, body |-> MetaBody(c, "title1")]}
      [] metaService = "updated" ->
            {[sent |-> TRUE, status |-> 200, json |-> TRUE, body |-> MetaBody(c, "title2")]}
      [] OTHER ->
            {[sent |-> FALSE, status |-> 0,   json |-> FALSE, body |-> MetaBody(c, "")],
             [sent |-> TRUE,  status |-> 503, json |-> FALSE, body |-> MetaBody(c, "")],
             [sent |-> TRUE,  status |-> 200, json |-> FALSE, body |-> MetaBody(c, "")]}

\* faulty variant: any answer that arrived is taken for metadata
FetchedAnyAnswer(r) == r.sent

\* the match of fetch_game_metadata: Ok(response), a 2xx status, and a body
\* that decodes as GameMetadata
Fetched(r) == r.sent /\ IsSuccess(r.status) /\ r.json

\* HashMap::insert
MapInsert(map, k, v) == [x \in (DOMAIN map) \cup {k} |-> IF x = k THEN v ELSE map[x]]
EmptyMap == [x \in {} |-> None]
\* HashMap::values() as a set
Values(map) == {map[k] : k \in DOMAIN map}

\* faulty variant: a record whose key is already in the map is not inserted
RECURSIVE InsertAllKeepingFirst(_, _)
InsertAllKeepingFirst(map, list) ==
    IF list = <<>> THEN map
    ELSE InsertAllKeepingFirst(
             IF Head(list).app_name \in DOMAIN map
               THEN map
               ELSE MapInsert(map, Head(list).app_name, Head(list)),
             Tail(list))

\* for game in &scanned_games { games_lock.insert(game.app_name.clone(), game.clone()) }
RECURSIVE InsertAll(_, _)
InsertAll(map, list) ==
    IF list = <<>> THEN map
    ELSE InsertAll(MapInsert(map, Head(list).app_name, Head(list)), Tail(list))

\* the entries read_dir yields, and those with the descriptor extension
Listing == {f \in FileNames : dir[f] # Absent}
Descriptors(entries) == {f \in entries : f[2] = "item"}

NotFound == "Epic Games manifests directory not found"
ListErr  == "Failed to read manifests directory"
EntryErr == "Failed to read directory entry"

\* the scan returned Err(e): each caller logs or returns it and touches nothing else
ScanFailed(p, e) ==
    /\ ret' = [ret EXCEPT ![p] = e]
    /\ pc' = [pc EXCEPT ![p] = "failed"]
    /\ todo' = [todo EXCEPT ![p] = {}]
    /\ scanned' = [scanned EXCEPT ![p] = <<>>]
    /\ began' = [began EXCEPT ![p] = 0]
    /\ UNCHANGED <<envVars, cfgVars, regVars, cacheVars, upVars, cur, old_count, events>>


\* Err(e) => eprintln!(..) in the tasks, `?` in scan_games_now: the cycle is over
ScanGivenUp(p) ==
    /\ pc[p] = "failed"
    /\ ret' = [ret EXCEPT ![p] = "none"]
    /\ pc' = [pc EXCEPT ![p] = EndOf(p)]
    /\ UNCHANGED <<envVars, cfgVars, regVars, cacheVars, upVars, todo, scanned, cur,
                   old_count, began, events>>

\* faulty variant: a missing directory is listed as an empty one
ScanBeginLenient(p) ==
    /\ pc[p] = "scan"
    /\ todo' = [todo EXCEPT ![p] = IF dirExists THEN Descriptors(Listing) ELSE {}]
    /\ scanned' = [scanned EXCEPT ![p] = <<>>]
    /\ began' = [began EXCEPT ![p] = diskChanges]
    /\ pc' = [pc EXCEPT ![p] = "files"]
    /\ UNCHANGED <<envVars, cfgVars, regVars, cacheVars, upVars, cur, ret, old_count,
                   events>>

\* faulty variant: the scan takes the registry mutex before it reads the
\* directory and keeps it while it reads and fetches
ScanBeginLocked(p) ==
    /\ pc[p] = "scan"
    /\ \/ /\ ~dirExists
          /\ ScanFailed(p, NotFound)
       \/ /\ dirExists
          /\ ScanFailed(p, ListErr)
       \/ /\ dirExists
          /\ gamesLock = Free
          /\ gamesLock' = p
          /\ todo' = [todo EXCEPT ![p] = Descriptors(Listing)]
          /\ scanned' = [scanned EXCEPT ![p] = <<>>]
          /\ began' = [began EXCEPT ![p] = diskChanges]
          /\ pc' = [pc EXCEPT ![p] = "files"]
          /\ UNCHANGED <<envVars, cfgVars, games, committed, scans, cacheVars,
                         upVars, cur, ret, old_count, events>>

\* scan_epic_games_with_metadata, up to read_dir
ScanBegin(p) ==
    /\ pc[p] = "scan"
    /\ \/ /\ ~dirExists
          /\ ScanFailed(p, NotFound)
       \/ /\ dirExists
          /\ ScanFailed(p, ListErr)
       \/ /\ dirExists
          /\ todo' = [todo EXCEPT ![p] = Descriptors(Listing)]
          /\ scanned' = [scanned EXCEPT ![p] = <<>>]
          /\ began' = [began EXCEPT ![p] = diskChanges]
          /\ pc' = [pc EXCEPT ![p] = "files"]
          /\ UNCHANGED <<envVars, cfgVars, regVars, cacheVars, upVars, cur, ret,
                         old_count, events>>

\* one turn of `for entry in entries` whose entry cannot be read, be it a
\* descriptor or any other entry of the directory: entry.map_err(..)?
ScanEntryErr(p) ==
    /\ pc[p] = "files"
    /\ todo[p] # {} \/ Listing # Descriptors(Listing)
    /\ ScanFailed(p, EntryErr)

\* faulty variant: a descriptor that does not parse ends the scan with an error
ScanFileAborting(p) ==
    /\ pc[p] = "files"
    /\ \E f \in todo[p] :
        IF ParsesAsManifest(ReadFile(f))
        THEN /\ todo' = [todo EXCEPT ![p] = @ \ {f}]
             /\ pc' = [pc EXCEPT ![p] = "fetch"]
             /\ cur' = [cur EXCEPT ![p] = Some(ReadFile(f).doc)]
             /\ UNCHANGED <<envVars, cfgVars, regVars, cacheVars, upVars, scanned, ret,
                            old_count, began, events>>
        ELSE ScanFailed(p, "Failed to parse JSON")

\* faulty variant: the cache is not consulted, every record's metadata is requested
ScanFileUncached(p) ==
    /\ pc[p] = "files"
    /\ cacheLock = Free
    /\ \E f \in todo[p] :
        /\ todo' = [todo EXCEPT ![p] = @ \ {f}]
        /\ IF ParsesAsManifest(ReadFile(f))
           THEN /\ pc' = [pc EXCEPT ![p] = "fetch"]
                /\ cur' = [cur EXCEPT ![p] = Some(ReadFile(f).doc)]
                /\ UNCHANGED scanned
           ELSE UNCHANGED <<pc, cur, scanned>>
    /\ UNCHANGED <<envVars, cfgVars, regVars, cacheVars, upVars, ret, old_count,
                   began, events>>

\* one turn of `for entry in entries`, up to the metadata request:
\* parse_manifest_file_with_metadata and the cache lookup of fetch_game_metadata,
\* made under the cache mutex, whose guard is dropped at the end of the lookup
ScanFile(p) ==
    /\ pc[p] = "files"
    /\ cacheLock = Free
    /\ \E f \in todo[p] :
        /\ todo' = [todo EXCEPT ![p] = @ \ {f}]
        /\ IF ParsesAsManifest(ReadFile(f))
           THEN LET m == ReadFile(f).doc
                    c == m["CatalogItemId"]
                IN  IF c \in DOMAIN metadata_cache
                    THEN /\ scanned' = [scanned EXCEPT ![p] =
                                Append(@, GameInfoOf(m, Some(metadata_cache[c])))]
                         /\ UNCHANGED <<pc, cur>>
                    ELSE /\ pc' = [pc EXCEPT ![p] = "fetch"]
                         /\ cur' = [cur EXCEPT ![p] = Some(m)]
                         /\ UNCHANGED scanned
           ELSE UNCHANGED <<pc, cur, scanned>>
    /\ cacheLock' = Free
    /\ UNCHANGED <<envVars, cfgVars, regVars, metadata_cache, upVars, ret, old_count,
                   began, events>>

\* faulty variant: the cache keeps only the entry inserted last
CacheInsertEvicting(cache, k, v) == [x \in {k} |-> v]

\* faulty variant: an entry that is there is kept (first write wins)
CacheInsertKeeping(cache, k, v) ==
    IF k \in DOMAIN cache THEN cache ELSE MapInsert(cache, k, v)

\* fetch_game_metadata: cache_lock.insert(catalog_item_id, metadata)
CacheInsert(cache, k, v) == MapInsert(cache, k, v)

\* fetch_game_metadata after HTTP_CLIENT.get(..).send().await, and the push:
\* a well-formed answer is inserted under the cache mutex
FetchDone(p) ==
    /\ pc[p] = "fetch"
    /\ cacheLock = Free
    /\ LET m == cur[p][1]
           c == m["CatalogItemId"]
       IN \E r \in MetaResponses(c) :
            IF Fetched(r)
            THEN /\ metadata_cache' = CacheInsert(metadata_cache, c, r.body)
                 /\ scanned' = [scanned EXCEPT ![p] =
                                    Append(@, GameInfoOf(m, Some(r.body)))]
            ELSE /\ scanned' = [scanned EXCEPT ![p] = Append(@, GameInfoOf(m, NoneOpt))]
                 /\ UNCHANGED metadata_cache
    /\ cacheLock' = Free
    /\ cur' = [cur EXCEPT ![p] = NoneOpt]
    /\ pc' = [pc EXCEPT ![p] = "files"]
    /\ UNCHANGED <<envVars, cfgVars, regVars, upVars, todo, ret, old_count, began, events>>

-----------------------------------------------------------------------------
(* Registry update *)

\* Ok(scanned_games) is back; games.lock(); old_count = len(); clear().
\* The initial scan of run() does not clear.
RegLock(p) ==
    /\ pc[p] = "files"
    /\ todo[p] = {}
    /\ gamesLock = Free
    /\ gamesLock' = p
    /\ ret' = [ret EXCEPT ![p] = "ok"]
    /\ old_count' = [old_count EXCEPT ![p] = Cardinality(DOMAIN games)]
    /\ games' = IF p = "init" THEN games ELSE EmptyMap
    /\ scans' = IF p = "init"
                  THEN scans \cup {InsertAll(EmptyMap, scanned[p])}
                  ELSE {InsertAll(EmptyMap, scanned[p])}
    /\ pc' = [pc EXCEPT ![p] = "fill"]
    /\ UNCHANGED <<envVars, cfgVars, committed, cacheVars, upVars, todo, scanned, cur,
                   began, events>>

\* faulty variant: the periodic scan emits games-updated after every replacement
EventOfAlways(p, old, new) ==
    CASE p = "pscan"   -> "games-updated"
      [] p = "init"    -> "games-updated"
      [] p = "scannow" -> "found"

\* what the task emits once the registry is refilled
EventOf(p, old, new) ==
    CASE p = "pscan"   -> IF old # new THEN "games-updated" ELSE "no-changes"
      [] p = "init"    -> "games-updated"
      [] p = "scannow" -> "found"

\* faulty variant: the batches iterate over the registry itself, not over a
\* clone: a refill of the registry is a refill of every running batch's list
RegFillAliasing(p) ==
    /\ pc[p] = "fill"
    /\ games' = InsertAll(games, scanned[p])
    /\ gamesLock' = Free
    /\ committed' = games'
    /\ events' = [events EXCEPT ![p] =
                    EventOf(p, old_count[p], Cardinality(DOMAIN games'))]
    /\ scanned' = [scanned EXCEPT ![p] = <<>>]
    /\ old_count' = [old_count EXCEPT ![p] = 0]
    /\ began' = [began EXCEPT ![p] = 0]
    /\ ret' = [ret EXCEPT ![p] = "none"]
    /\ pc' = [pc EXCEPT ![p] = EndOf(p)]
    /\ snapshot' = [q \in UploadProcs |->
                      IF snapshot[q] = <<>> THEN <<>> ELSE scanned[p]]
    /\ UNCHANGED <<envVars, cfgVars, scans, cacheVars, todo, cur,
                   uploaded, results, hash, idx, resp, acked, cleared>>

\* the inserts, and the guard is dropped
RegFill(p) ==
    /\ pc[p] = "fill"
    /\ games' = InsertAll(games, scanned[p])
    /\ gamesLock' = Free
    /\ committed' = games'
    /\ events' = [events EXCEPT ![p] =
                    EventOf(p, old_count[p], Cardinality(DOMAIN games'))]
    /\ scanned' = [scanned EXCEPT ![p] = <<>>]
    /\ old_count' = [old_count EXCEPT ![p] = 0]
    /\ began' = [began EXCEPT ![p] = 0]
    /\ ret' = [ret EXCEPT ![p] = "none"]
    /\ pc' = [pc EXCEPT ![p] = EndOf(p)]
    /\ UNCHANGED <<envVars, cfgVars, scans, cacheVars, upVars, todo, cur>>

\* periodic_scan: interval.tick().await fires, the interval is read from the
\* settings (settings.lock().unwrap()) and, when it changed, the timer is built
\* anew before the scan of this iteration starts
PeriodicScanTick ==
    /\ pc["pscan"] = "tick"
    /\ settingsLock = Free
    /\ events' = [events EXCEPT !["pscan"] = "none"]
    /\ LET new_interval_minutes == settings.scan_interval_minutes
           changed == new_interval_minutes # current_interval_minutes
       IN  IF "settings" \in poisoned
             THEN /\ pc' = [pc EXCEPT !["pscan"] = "panicked"]
                  /\ panics' = [panics EXCEPT !["pscan"] = PoisonedUnwrap]
                  /\ UNCHANGED <<current_interval_minutes, interval>>
           ELSE IF changed /\ new_interval_minutes * SecondsPerMinute = 0
             THEN /\ pc' = [pc EXCEPT !["pscan"] = "panicked"]
                  /\ panics' = [panics EXCEPT !["pscan"] = ZeroPeriod]
                  /\ current_interval_minutes' = new_interval_minutes
                  /\ interval' = Ticked(interval)
           ELSE /\ pc' = [pc EXCEPT !["pscan"] = "scan"]
                /\ current_interval_minutes' = new_interval_minutes
                /\ interval' =
                      IF changed
                        THEN Timer(new_interval_minutes * SecondsPerMinute)
                        ELSE Ticked(interval)
                /\ UNCHANGED panics
    /\ UNCHANGED <<envVars, settings, settingsFile, settingsLock, poisoned,
                   next_upload, regVars, cacheVars, upVars,
                   scanVars, began>>

\* the command scan_games_now is invoked
ScanGamesNow ==
    /\ pc["scannow"] = "idle"
    /\ pc' = [pc EXCEPT !["scannow"] = "scan"]
    /\ events' = [events EXCEPT !["scannow"] = "none"]
    /\ UNCHANGED <<envVars, cfgVars, regVars, cacheVars, upVars, scanVars, began>>

\* faulty variant: the registry is read without waiting for its mutex
GetInstalledGamesUnlocked ==
    /\ pc["reader"] = "idle"
    /\ gamesLock' = "reader"
    /\ pc' = [pc EXCEPT !["reader"] = "read"]
    /\ UNCHANGED <<envVars, cfgVars, games, committed, scans, cacheVars, upVars,
                   scanVars, began, events>>

\* the command get_installed_games: games.lock()
GetInstalledGames ==
    /\ pc["reader"] = "idle"
    /\ gamesLock = Free
    /\ gamesLock' = "reader"
    /\ pc' = [pc EXCEPT !["reader"] = "read"]
    /\ UNCHANGED <<envVars, cfgVars, games, committed, scans, cacheVars, upVars, scanVars, began,
                   events>>

\* the command get_installed_games: Ok(games_lock.values().cloned().collect())
GetInstalledGamesReturn ==
    /\ pc["reader"] = "read"
    /\ gamesLock' = Free
    /\ pc' = [pc EXCEPT !["reader"] = "idle"]
    /\ UNCHANGED <<envVars, cfgVars, games, committed, scans, cacheVars, upVars, scanVars, began,
                   events>>

-----------------------------------------------------------------------------
(* The machine changes under the process: the launcher installs, updates or
   removes a game, the user deletes files, the network comes and goes. *)

\* the manifests directory is removed or created
DirChange ==
    /\ diskChanges < MaxDiskChanges
    /\ diskChanges' = diskChanges + 1
    /\ dirExists' = ~dirExists
    /\ UNCHANGED <<cfgVars, dir, blobs, dedupFile, metaService, regVars, cacheVars,
                   upVars, scanVars, began, pc, events>>

\* one file of the manifests directory is written, corrupted or removed
FileChange ==
    /\ diskChanges < MaxDiskChanges
    /\ diskChanges' = diskChanges + 1
    /\ \E f \in FileNames : \E c \in ContentsOf(f) :
        /\ c # dir[f]
        /\ dir' = [dir EXCEPT ![f] = c]
    /\ UNCHANGED <<cfgVars, dirExists, blobs, dedupFile, metaService, regVars,
                   cacheVars, upVars, scanVars, began, pc, events>>

\* the binary manifest of one installation is removed or written
BlobChange ==
    /\ diskChanges < MaxDiskChanges
    /\ diskChanges' = diskChanges + 1
    /\ \E g \in Guids : blobs' = IF g \in blobs THEN blobs \ {g} ELSE blobs \cup {g}
    /\ UNCHANGED <<cfgVars, dirExists, dir, dedupFile, metaService, regVars,
                   cacheVars, upVars, scanVars, began, pc, events>>

\* the metadata service goes down, comes back, or has a game's metadata edited
MetaServiceChange ==
    /\ metaService' \in {"up", "down", "updated"} \ {metaService}
    /\ UNCHANGED <<cfgVars, dirExists, dir, blobs, dedupFile, diskChanges, regVars,
                   cacheVars, upVars, scanVars, began, pc, events>>

-----------------------------------------------------------------------------
(* Persisted dedup set *)

\* the sequences holding exactly the elements of S, each once
Orderings(S) ==
    {q \in [1..Cardinality(S) -> S] : \A x \in S : \E i \in 1..Cardinality(S) : q[i] = x}

Range(q) == {q[i] : i \in 1..Len(q)}

\* faulty variant: the persisted set is not read back
LoadUploadedNothing(file) == {}

\* load_uploaded_manifests_from_file: an absent or undecodable file is the empty set
LoadUploaded(file) == IF file.kind = "json" THEN Range(file.arr) ELSE {}

\* faulty variant: the file is written as an empty array
SavedAsEmpty(set) == {[kind |-> "json", arr |-> <<>>]}

\* save_uploaded_manifests_to_file: the set as a JSON array, in the set's iteration order
SavedAs(set) == {[kind |-> "json", arr |-> q] : q \in Orderings(set)}

-----------------------------------------------------------------------------
(* Upload pipeline *)

\* texts are sequences of words
Phrase == <<"A", "manifest", "file", "with", "identical", "content", "already", "exists">>

\* str::contains
Contains(text, pat) ==
    \E i \in 0..(Len(text) - Len(pat)) : SubSeq(text, i + 1, i + Len(pat)) = pat

\* what POST /upload-manifest may answer: a transport error (sent = FALSE), a
\* 2xx (whose body happens to hold the phrase), or a non-2xx whose body holds
\* the phrase, nearly holds it, or could not be read (unwrap_or_default)
DuplicateBody == <<"Error:">> \o Phrase \o <<"(409)">>
Bodies == {DuplicateBody, <<"A", "manifest", "file", "already", "exists">>, <<>>}
NoResponse == [sent |-> FALSE, status |-> 0, text |-> <<>>]
Responses ==
    {NoResponse}
        \cup {[sent |-> TRUE, status |-> 200, text |-> DuplicateBody]}
        \cup {[sent |-> TRUE, status |-> 409, text |-> b] : b \in Bodies}

\* Result<UploadStatus, String>
OkStatus(status, message, h) ==
    [ok |-> TRUE, status |-> status, message |-> message, manifest_hash |-> h]
Err(e) == [ok |-> FALSE, err |-> e]

\* faulty variant: the status made of an Err(e) does not carry the error text
BatchEntryWithoutText(res) ==
    IF res.ok THEN res ELSE OkStatus("failed", <<>>, NoneOpt)

\* upload_all_manifests_internal: Ok(status) is pushed, Err(e) becomes a failed status
BatchEntry(res) ==
    IF res.ok THEN res ELSE OkStatus("failed", res.err, NoneOpt)

\* <manifests>/<guid>.item and <install_location>/.egstore/<guid>.manifest
ItemPath(game) == <<game.installation_guid, "item">>
BlobReadable(game) == game.installation_guid \in blobs

ItemReadErr  == <<"Failed to read .item file">>
BlobReadErr  == <<"Failed to read .manifest file">>
ItemParseErr == <<"Failed to parse .item file">>
NoHashErr    == <<"ManifestHash not found in .item file">>
SendErr      == <<"Failed to send upload request">>

\* upload_manifest_internal up to the dedup check: the value returned early,
\* or the order to send the request
Prepared(game) ==
    LET item == ReadFile(ItemPath(game)) IN
    CASE item.kind = "nofile" -> Err(ItemReadErr)
      [] item.kind # "nofile" /\ ~BlobReadable(game) -> Err(BlobReadErr)
      [] item.kind = "badjson" /\ BlobReadable(game) -> Err(ItemParseErr)
      [] item.kind = "json" /\ BlobReadable(game)
            /\ "ManifestHash" \notin DOMAIN item.doc -> Err(NoHashErr)
      [] OTHER ->
            IF item.doc["ManifestHash"] \in uploaded
            THEN OkStatus("already_uploaded", <<"Manifest already uploaded">>,
                          Some(item.doc["ManifestHash"]))
            ELSE OkStatus("send", <<>>, Some(item.doc["ManifestHash"]))

\* faulty variant: the body of a non-2xx response is not searched for the phrase
ClassifiedWithoutPhrase(response, h) ==
    IF ~response.sent THEN Err(SendErr)
    ELSE IF IsSuccess(response.status)
         THEN OkStatus("uploaded", response.text, Some(h))
         ELSE OkStatus("failed", response.text, Some(h))

\* faulty variant: a request that could not be sent is returned as a status
\* of the hash, not as an error
ClassifiedSendErrAsStatus(response, h) ==
    IF ~response.sent THEN OkStatus("failed", SendErr, Some(h))
    ELSE IF IsSuccess(response.status)
         THEN OkStatus("uploaded", response.text, Some(h))
    ELSE IF Contains(response.text, Phrase)
         THEN OkStatus("already_uploaded",
                       <<"Manifest with identical content already exists">>, Some(h))
         ELSE OkStatus("failed", response.text, Some(h))

\* upload_manifest_internal from the response on: the value returned
Classified(response, h) ==
    IF ~response.sent THEN Err(SendErr)
    ELSE IF IsSuccess(response.status)
         THEN OkStatus("uploaded", response.text, Some(h))
    ELSE IF Contains(response.text, Phrase)
         THEN OkStatus("already_uploaded",
                       <<"Manifest with identical content already exists">>, Some(h))
         ELSE OkStatus("failed", response.text, Some(h))

\* faulty variant: the hash is recorded whatever the server answered
RecordsEveryResponse(res) == res.ok /\ res.status \in {"uploaded", "already_uploaded", "failed"}

\* faulty variant: only the duplicate-content branch records the hash
RecordsDuplicatesOnly(res) == res.ok /\ res.status = "already_uploaded"

\* the statuses the hash is recorded with: insert + save under the dedup lock
Records(res) == res.ok /\ res.status \in {"uploaded", "already_uploaded"}

\* an attempt that completed with uploaded or already_uploaded (history)
Completed(res) == res.ok /\ res.status \in {"uploaded", "already_uploaded"}

\* faulty variant: an Err(e) ends the batch, as `?` would
ReturnedAborting(p, res) ==
    /\ results' = [results EXCEPT ![p] = IF res.ok THEN Append(@, res) ELSE @]
    /\ idx' = [idx EXCEPT ![p] = IF res.ok THEN @ + 1 ELSE Len(snapshot[p]) + 1]
    /\ pc' = [pc EXCEPT ![p] = "prepare"]
    /\ hash' = [hash EXCEPT ![p] = "none"]
    /\ acked' = IF Completed(res) THEN acked \cup {res.manifest_hash[1]} ELSE acked

\* faulty variant: the status is put in front of the statuses gathered so far
ReturnedPrepending(p, res) ==
    /\ results' = [results EXCEPT ![p] =
                     <<IF p \in BatchProcs THEN BatchEntry(res) ELSE res>> \o @]
    /\ idx' = [idx EXCEPT ![p] = @ + 1]
    /\ pc' = [pc EXCEPT ![p] = "prepare"]
    /\ hash' = [hash EXCEPT ![p] = "none"]
    /\ acked' = IF Completed(res) THEN acked \cup {res.manifest_hash[1]} ELSE acked

\* the value comes back to the caller: the batch pushes it and goes on with the
\* next record, the command upload_manifest returns it
Returned(p, res) ==
    /\ results' = [results EXCEPT ![p] =
                     Append(@, IF p \in BatchProcs THEN BatchEntry(res) ELSE res)]
    /\ idx' = [idx EXCEPT ![p] = @ + 1]
    /\ pc' = [pc EXCEPT ![p] = "prepare"]
    /\ hash' = [hash EXCEPT ![p] = "none"]
    /\ acked' = IF Completed(res) THEN acked \cup {res.manifest_hash[1]} ELSE acked

\* the holder of the UploadedManifestSet mutex: the upload that has inserted
\* its hash and is writing the dedup file under the guard, or Free
UploadedLockHolder ==
    IF \E q \in UploadProcs : pc[q] = "record"
    THEN CHOOSE q \in UploadProcs : pc[q] = "record"
    ELSE Free

\* files read, descriptor decoded, dedup set consulted (under its mutex)
UploadPrepare(p) ==
    /\ pc[p] = "prepare"
    /\ idx[p] <= Len(snapshot[p])
    /\ LET res == Prepared(snapshot[p][idx[p]]) IN
        /\ (res.ok /\ res.manifest_hash # NoneOpt) => UploadedLockHolder = Free
        /\ IF res.ok /\ res.status = "send"
           THEN /\ hash' = [hash EXCEPT ![p] = res.manifest_hash[1]]
                /\ pc' = [pc EXCEPT ![p] = "send"]
                /\ UNCHANGED <<results, idx, acked>>
           ELSE Returned(p, res)
    /\ UNCHANGED <<envVars, cfgVars, regVars, cacheVars, uploaded, scanVars, began,
                   events, snapshot, resp, cleared>>

\* client.post(..).multipart(form).send(): the request leaves
UploadSend(p) ==
    /\ pc[p] = "send"
    /\ pc' = [pc EXCEPT ![p] = "wait"]
    /\ UNCHANGED <<envVars, cfgVars, regVars, cacheVars, upVars, scanVars, began, events>>

\* .send().await is over: the transport error, or the status and, after
\* response.text().await, the body
UploadRespond(p) ==
    /\ pc[p] = "wait"
    /\ \E r \in Responses : resp' = [resp EXCEPT ![p] = r]
    /\ pc' = [pc EXCEPT ![p] = "classify"]
    /\ UNCHANGED <<envVars, cfgVars, regVars, cacheVars, scanVars, began, events,
                   uploaded, snapshot, results, hash, idx, acked, cleared>>

\* the response is classified, the hash recorded, and the value returned
UploadClassify(p) ==
    /\ pc[p] = "classify"
    /\ LET res == Classified(resp[p], hash[p]) IN
        /\ IF Records(res)
           THEN /\ uploaded' = uploaded \cup {hash[p]}
                /\ dedupFile' \in SavedAs(uploaded')
           ELSE UNCHANGED <<uploaded, dedupFile>>
        /\ Returned(p, res)
    /\ resp' = [resp EXCEPT ![p] = NoResponse]
    /\ UNCHANGED <<cfgVars, dirExists, dir, blobs, diskChanges, metaService, regVars,
                   cacheVars, scanVars, began, events, snapshot, cleared>>

\* the same handler at the grain of its critical section: the response is
\* classified; for a hash to record, uploaded_manifests.lock() and insert
UploadClassifyLocked(p) ==
    /\ pc[p] = "classify"
    /\ LET res == Classified(resp[p], hash[p]) IN
        IF Records(res)
        THEN /\ UploadedLockHolder = Free
             /\ uploaded' = uploaded \cup {hash[p]}
             /\ pc' = [pc EXCEPT ![p] = "record"]
             /\ UNCHANGED <<results, idx, hash, acked, resp>>
        ELSE /\ Returned(p, res)
             /\ resp' = [resp EXCEPT ![p] = NoResponse]
             /\ UNCHANGED uploaded
    /\ UNCHANGED <<envVars, cfgVars, regVars, cacheVars, scanVars, began, events,
                   snapshot, cleared>>

\* save_uploaded_manifests_to_file(&uploaded) under the guard; then the guard
\* is dropped and the status returned
UploadSaveDedup(p) ==
    /\ pc[p] = "record"
    /\ dedupFile' \in SavedAs(uploaded)
    /\ Returned(p, Classified(resp[p], hash[p]))
    /\ resp' = [resp EXCEPT ![p] = NoResponse]
    /\ UNCHANGED <<cfgVars, dirExists, dir, blobs, diskChanges, metaService, regVars,
                   cacheVars, uploaded, scanVars, began, events, snapshot, cleared>>

\* upload_all_manifests(_internal): games.lock()
BatchLock(p) ==
    /\ pc[p] = "snapshot"
    /\ gamesLock = Free
    /\ gamesLock' = p
    /\ pc' = [pc EXCEPT ![p] = "clone"]
    /\ UNCHANGED <<envVars, cfgVars, games, committed, scans, cacheVars, upVars, scanVars, began,
                   events>>

\* upload_all_manifests(_internal): games_lock.values().cloned().collect()
BatchSnapshot(p) ==
    /\ pc[p] = "clone"
    /\ gamesLock' = Free
    /\ snapshot' \in {[snapshot EXCEPT ![p] = q] : q \in Orderings(Values(games))}
    /\ results' = [results EXCEPT ![p] = <<>>]
    /\ idx' = [idx EXCEPT ![p] = 1]
    /\ began' = [began EXCEPT ![p] = diskChanges]
    /\ pc' = [pc EXCEPT ![p] = "prepare"]
    /\ UNCHANGED <<envVars, cfgVars, games, committed, scans, cacheVars, uploaded,
                   scanVars, events, hash, resp, acked, cleared>>

\* faulty variant: the periodic loop ends after its batch instead of going
\* back to its timer
BatchDoneOnce(p) ==
    /\ pc[p] = "prepare"
    /\ idx[p] > Len(snapshot[p])
    /\ events' = [events EXCEPT ![p] =
                    IF p = "pupload" THEN "periodic-upload-completed" ELSE @]
    /\ snapshot' = [snapshot EXCEPT ![p] = <<>>]
    /\ results' = [results EXCEPT ![p] = <<>>]
    /\ idx' = [idx EXCEPT ![p] = 1]
    /\ pc' = [pc EXCEPT ![p] = "idle"]
    /\ began' = [began EXCEPT ![p] = 0]
    /\ UNCHANGED <<envVars, cfgVars, regVars, cacheVars, uploaded, scanVars, hash, resp,
                   acked, cleared>>

\* the loop over games_to_upload is over: Ok(results) goes to the caller
BatchDone(p) ==
    /\ pc[p] = "prepare"
    /\ idx[p] > Len(snapshot[p])
    /\ events' = [events EXCEPT ![p] =
                    IF p = "pupload" THEN "periodic-upload-completed" ELSE @]
    /\ snapshot' = [snapshot EXCEPT ![p] = <<>>]
    /\ results' = [results EXCEPT ![p] = <<>>]
    /\ idx' = [idx EXCEPT ![p] = 1]
    /\ pc' = [pc EXCEPT ![p] = IF p = "pupload" THEN "tick" ELSE "idle"]
    /\ began' = [began EXCEPT ![p] = 0]
    /\ UNCHANGED <<envVars, cfgVars, regVars, cacheVars, uploaded, scanVars, hash, resp,
                   acked, cleared>>

\* the interval a tick of periodic_upload reads from the settings
UploadIntervalStale == DefaultUploadInterval
UploadIntervalRead  == settings.upload_interval

\* periodic_upload: interval.tick().await fires (the hourly timer), the upload
\* interval is read from the settings and next_upload is computed; a settings
\* mutex that cannot be locked skips the cycle (continue)
PeriodicUploadTick ==
    /\ pc["pupload"] = "tick"
    /\ settingsLock = Free
    /\ events' = [events EXCEPT !["pupload"] = "none"]
    /\ \/ /\ "settings" \in poisoned
          /\ UNCHANGED <<pc, next_upload, panics>>
       \/ /\ "settings" \notin poisoned
          /\ ~Overflows(UploadIntervalRead, SecondsPerHour)
          /\ next_upload' = UploadIntervalRead * SecondsPerHour
          /\ pc' = [pc EXCEPT !["pupload"] = "sleep"]
          /\ UNCHANGED panics
       \/ /\ "settings" \notin poisoned
          /\ Overflows(UploadIntervalRead, SecondsPerHour)
          /\ \/ /\ next_upload' = WrappingMul(UploadIntervalRead, SecondsPerHour)
                /\ pc' = [pc EXCEPT !["pupload"] = "sleep"]
                /\ UNCHANGED panics
             \/ /\ pc' = [pc EXCEPT !["pupload"] = "panicked"]
                /\ panics' = [panics EXCEPT !["pupload"] = MulOverflow]
                /\ UNCHANGED next_upload
    /\ UNCHANGED <<envVars, settings, settingsFile, settingsLock, poisoned,
                   current_interval_minutes, interval, regVars,
                   cacheVars, upVars, scanVars, began>>

\* periodic_upload: time::sleep(next_upload).await is over
PeriodicUploadWake ==
    /\ pc["pupload"] = "sleep"
    /\ pc' = [pc EXCEPT !["pupload"] = "snapshot"]
    /\ next_upload' = 0
    /\ UNCHANGED <<envVars, settings, settingsFile, settingsLock, poisoned,
                   current_interval_minutes, interval, panics, regVars,
                   cacheVars, upVars, scanVars, began, events>>

\* faulty variant: the guard is dropped as soon as the settings are stored,
\* before they are written to the file
SetSettingsUnlocked(p) ==
    /\ pc[p] = "idle"
    /\ settingsLock = Free
    /\ "settings" \notin poisoned
    /\ \E new_settings \in SettingsValues : settings' = new_settings
    /\ settingsLock' = Free
    /\ pc' = [pc EXCEPT ![p] = "save"]
    /\ events' = [events EXCEPT ![p] = "none"]
    /\ UNCHANGED <<envVars, settingsFile, poisoned, current_interval_minutes,
                   interval, next_upload, panics, regVars,
                   cacheVars, upVars, scanVars, began>>

\* the command set_settings: the mutex is taken and the new settings stored
SetSettings(p) ==
    /\ pc[p] = "idle"
    /\ settingsLock = Free
    /\ "settings" \notin poisoned
    /\ \E new_settings \in SettingsValues : settings' = new_settings
    /\ settingsLock' = p
    /\ pc' = [pc EXCEPT ![p] = "save"]
    /\ events' = [events EXCEPT ![p] = "none"]
    /\ UNCHANGED <<envVars, settingsFile, poisoned, current_interval_minutes,
                   interval, next_upload, panics, regVars,
                   cacheVars, upVars, scanVars, began>>

\* set_settings: save_settings_to_file writes settings.json, then the guard is
\* dropped and the command returns Ok
SetSettingsSave(p) ==
    /\ pc[p] = "save"
    /\ settingsFile' = <<settings>>
    /\ settingsLock' = Free
    /\ pc' = [pc EXCEPT ![p] = "idle"]
    /\ events' = [events EXCEPT ![p] = "ok"]
    /\ UNCHANGED <<envVars, settings, poisoned, current_interval_minutes,
                   interval, next_upload, panics, regVars,
                   cacheVars, upVars, scanVars, began>>

\* set_settings: the thread panics inside save_settings_to_file (eprintln!
\* panics when standard error cannot be written); the guard is dropped during
\* the unwinding and the mutex is poisoned
SetSettingsPanic(p) ==
    /\ pc[p] = "save"
    /\ settingsLock' = Free
    /\ poisoned' = poisoned \cup {"settings"}
    /\ pc' = [pc EXCEPT ![p] = "idle"]
    /\ events' = [events EXCEPT ![p] = "panic"]
    /\ UNCHANGED <<envVars, settings, settingsFile, current_interval_minutes,
                   interval, next_upload, panics, regVars,
                   cacheVars, upVars, scanVars, began>>

\* set_settings on a poisoned mutex returns Err("Failed to lock settings: ...")
SetSettingsFails(p) ==
    /\ pc[p] = "idle"
    /\ "settings" \in poisoned
    /\ events' = [events EXCEPT ![p] = "error"]
    /\ UNCHANGED <<envVars, cfgVars, regVars, cacheVars, upVars, scanVars,
                   began, pc>>

\* the command get_settings: the mutex is taken
GetSettings ==
    /\ pc["getter"] = "idle"
    /\ settingsLock = Free
    /\ "settings" \notin poisoned
    /\ settingsLock' = "getter"
    /\ pc' = [pc EXCEPT !["getter"] = "read"]
    /\ events' = [events EXCEPT !["getter"] = "none"]
    /\ UNCHANGED <<envVars, settings, settingsFile, poisoned,
                   current_interval_minutes, interval, next_upload, panics,
                   regVars, cacheVars, upVars, scanVars, began>>

\* get_settings: Ok(settings_lock.clone()), the guard is dropped
GetSettingsReturn ==
    /\ pc["getter"] = "read"
    /\ settingsLock' = Free
    /\ pc' = [pc EXCEPT !["getter"] = "idle"]
    /\ events' = [events EXCEPT !["getter"] = "ok"]
    /\ UNCHANGED <<envVars, settings, settingsFile, poisoned,
                   current_interval_minutes, interval, next_upload, panics,
                   regVars, cacheVars, upVars, scanVars, began>>

\* the command upload_all_manifests is invoked
UploadAllManifests ==
    /\ pc["upall"] = "idle"
    /\ pc' = [pc EXCEPT !["upall"] = "snapshot"]
    /\ UNCHANGED <<envVars, cfgVars, regVars, cacheVars, upVars, scanVars, began, events>>

\* the command upload_manifest(game_id, installation_guid): games.lock()
UploadManifest ==
    /\ pc["upone"] = "idle"
    /\ gamesLock = Free
    /\ gamesLock' = "upone"
    /\ pc' = [pc EXCEPT !["upone"] = "find"]
    /\ UNCHANGED <<envVars, cfgVars, games, committed, scans, cacheVars, upVars, scanVars, began,
                   events>>

\* upload_manifest: games_lock.values().find(..).cloned(); Err("Game not found")
UploadManifestFind ==
    /\ pc["upone"] = "find"
    /\ gamesLock' = Free
    /\ \E game_id \in {"cat1", "cat2"}, installation_guid \in Guids :
        LET found == {g \in Values(games) :
                        /\ g.catalog_item_id = game_id
                        /\ g.installation_guid = installation_guid}
        IN  IF found = {}
            THEN /\ pc' = [pc EXCEPT !["upone"] = "idle"]
                 /\ UNCHANGED <<snapshot, began>>
            ELSE /\ \E g \in found : snapshot' = [snapshot EXCEPT !["upone"] = <<g>>]
                 /\ began' = [began EXCEPT !["upone"] = diskChanges]
                 /\ pc' = [pc EXCEPT !["upone"] = "prepare"]
    /\ UNCHANGED <<envVars, cfgVars, games, committed, scans, cacheVars, uploaded,
                   scanVars, events, results, hash, idx, resp, acked, cleared>>

\* faulty variant: the set is cleared in memory and the file is left as it is
ClearUploadedManifestsInMemory ==
    /\ UploadedLockHolder = Free
    /\ uploaded' = {}
    /\ cleared' = cleared \cup acked
    /\ acked' = {}
    /\ UNCHANGED <<cfgVars, envVars, regVars, cacheVars, scanVars, began, pc,
                   events, snapshot, results, hash, idx, resp>>

\* the command clear_uploaded_manifests
ClearUploadedManifests ==
    /\ UploadedLockHolder = Free
    /\ uploaded' = {}
    /\ dedupFile' \in SavedAs(uploaded')
    /\ cleared' = cleared \cup acked
    /\ acked' = {}
    /\ UNCHANGED <<cfgVars, dirExists, dir, blobs, diskChanges, metaService, regVars,
                   cacheVars, scanVars, began, pc, events, snapshot, results,
                   hash, idx, resp>>

-----------------------------------------------------------------------------
(* Start of the process *)

\* the disks the process may be started on: two games, one game beside a
\* corrupt descriptor, no descriptor at all
TwoGames ==
    [f \in FileNames |->
        CASE f = <<"g1", "item">> -> Json(Doc("g1", "app1", "cat1", "h1"))
          [] f = <<"g2", "item">> -> Json(Doc("g2", "app2", "cat2", "h2"))
          [] OTHER                -> BadJson]
OneGame ==
    [f \in FileNames |->
        CASE f = <<"g1", "item">> -> BadJson
          [] f = <<"g2", "item">> -> Json(Doc("g2", "app2", "cat2", "h2"))
          [] OTHER                -> BadJson]
NoGames ==
    [f \in FileNames |->
        CASE f = <<"g1", "bak">>  -> BadJson
          [] OTHER                -> Absent]
InitDirs == {TwoGames, OneGame, NoGames}

InitDedupFiles ==
    {[kind |-> "nofile", arr |-> <<>>],
     [kind |-> "badjson", arr |-> <<>>],
     [kind |-> "json", arr |-> <<"h2">>]}

\* run(): the three tasks are spawned, the commands wait for the user interface
StartPc == [p \in Procs |->
                CASE p = "init"    -> "scan"
                  [] p = "pscan"   -> ScanLoopStart(DefaultSettings).at
                  [] p = "pupload" -> "tick"
                  [] OTHER         -> "idle"]

Init ==
    /\ dirExists \in BOOLEAN
    /\ dir \in InitDirs
    /\ blobs = Guids
    /\ dedupFile \in InitDedupFiles
    /\ diskChanges = 0
    /\ metaService \in {"up", "down"}
    /\ committed = EmptyMap
    /\ acked = {}
    /\ cleared = {}
    /\ games = EmptyMap
    /\ gamesLock = Free
    /\ metadata_cache = EmptyMap
    /\ cacheLock = Free
    /\ uploaded = LoadUploaded(dedupFile)
    /\ pc = StartPc
    /\ todo = [p \in ScanProcs |-> {}]
    /\ scanned = [p \in ScanProcs |-> <<>>]
    /\ cur = [p \in ScanProcs |-> NoneOpt]
    /\ ret = [p \in ScanProcs |-> "none"]
    /\ old_count = [p \in ScanProcs |-> 0]
    /\ began = [p \in Procs |-> 0]
    /\ scans = {}
    /\ resp = [p \in UploadProcs |-> NoResponse]
    /\ events = [p \in Procs |-> "none"]
    /\ snapshot = [p \in UploadProcs |-> <<>>]
    /\ results = [p \in UploadProcs |-> <<>>]
    /\ hash = [p \in UploadProcs |-> "none"]
    /\ idx = [p \in UploadProcs |-> 1]
    /\ settingsFile = <<>>
    /\ settings = LoadSettings(settingsFile)
    /\ settingsLock = Free
    /\ poisoned = {}
    /\ current_interval_minutes = settings.scan_interval_minutes
    /\ interval = Ticked(Timer(settings.scan_interval_minutes * SecondsPerMinute))
    /\ next_upload = 0
    /\ panics = [p \in LoopProcs |-> "none"]

\* the process is killed and started again: run() builds the shared state anew
Restart ==
    /\ games' = EmptyMap
    /\ gamesLock' = Free
    /\ committed' = EmptyMap
    /\ metadata_cache' = EmptyMap
    /\ cacheLock' = Free
    /\ uploaded' = LoadUploaded(dedupFile)
    /\ settings' = LoadSettings(settingsFile)
    /\ settingsLock' = Free
    /\ poisoned' = {}
    /\ current_interval_minutes' = LoadSettings(settingsFile).scan_interval_minutes
    /\ interval' = Ticked(Timer(LoadSettings(settingsFile).scan_interval_minutes
                                   * SecondsPerMinute))
    /\ next_upload' = 0
    /\ panics' = [p \in LoopProcs |->
                    IF p = "pscan"
                      THEN ScanLoopStart(LoadSettings(settingsFile)).panic
                      ELSE "none"]
    /\ pc' = [StartPc EXCEPT
                !["pscan"] = ScanLoopStart(LoadSettings(settingsFile)).at]
    /\ todo' = [p \in ScanProcs |-> {}]
    /\ scanned' = [p \in ScanProcs |-> <<>>]
    /\ cur' = [p \in ScanProcs |-> NoneOpt]
    /\ ret' = [p \in ScanProcs |-> "none"]
    /\ old_count' = [p \in ScanProcs |-> 0]
    /\ began' = [p \in Procs |-> 0]
    /\ scans' = {}
    /\ resp' = [p \in UploadProcs |-> NoResponse]
    /\ events' = [p \in Procs |-> "none"]
    /\ snapshot' = [p \in UploadProcs |-> <<>>]
    /\ results' = [p \in UploadProcs |-> <<>>]
    /\ hash' = [p \in UploadProcs |-> "none"]
    /\ idx' = [p \in UploadProcs |-> 1]
    /\ UNCHANGED <<envVars, settingsFile, acked, cleared>>

ScanStep(p) ==
    \/ ScanBegin(p) \/ ScanEntryErr(p) \/ ScanGivenUp(p) \/ ScanFile(p)
    \/ FetchDone(p) \/ RegLock(p) \/ RegFill(p)

UploadStep(p) ==
    \/ UploadPrepare(p) \/ UploadSend(p) \/ UploadRespond(p) \/ UploadClassify(p)
    \/ BatchDone(p)

BatchStep(p) ==
    \/ BatchLock(p) \/ BatchSnapshot(p)

-----------------------------------------------------------------------------
(* The whole engine, and the sub-systems the properties are checked under *)

Next ==
    \/ \E p \in ScanProcs : ScanStep(p)
    \/ PeriodicScanTick
    \/ ScanGamesNow
    \/ GetInstalledGames
    \/ GetInstalledGamesReturn
    \/ \E p \in UploadProcs : UploadStep(p)
    \/ \E p \in BatchProcs : BatchStep(p)
    \/ PeriodicUploadTick
    \/ PeriodicUploadWake
    \/ UploadAllManifests
    \/ UploadManifest
    \/ UploadManifestFind
    \/ ClearUploadedManifests
    \/ DirChange
    \/ FileChange
    \/ BlobChange
    \/ MetaServiceChange
    \/ Restart

Spec == Init /\ [][Next]_vars

\* The replacing scanners and a reader, on a disk that changes.
InitScan == Init /\ dedupFile.kind = "nofile"

NextScan ==
    \/ \E p \in {"pscan", "scannow"} : ScanStep(p)
    \/ PeriodicScanTick
    \/ ScanGamesNow
    \/ GetInstalledGames
    \/ GetInstalledGamesReturn
    \/ DirChange
    \/ FileChange

SpecScan == InitScan /\ [][NextScan]_vars

\* The three scanners of a started process, on a disk whose files change.
InitStartup ==
    Init /\ dirExists /\ metaService = "up" /\ dir = OneGame
         /\ dedupFile.kind = "nofile"

NextStartup ==
    \/ \E p \in ScanProcs : ScanStep(p)
    \/ PeriodicScanTick
    \/ ScanGamesNow
    \/ FileChange

SpecStartup == InitStartup /\ [][NextStartup]_vars

\* The three uploaders over a registry of one game, with the dedup set
\* cleared and the process restarted at any time.
InitDedup == Init /\ dirExists /\ metaService = "up" /\ dir = OneGame

NextDedup ==
    \/ \E p \in {"pscan"} : ScanStep(p)
    \/ PeriodicScanTick
    \/ \E p \in UploadProcs : UploadStep(p)
    \/ \E p \in BatchProcs : BatchStep(p)
    \/ PeriodicUploadTick
    \/ PeriodicUploadWake
    \/ UploadAllManifests
    \/ UploadManifest
    \/ UploadManifestFind
    \/ ClearUploadedManifests
    \/ Restart

SpecDedup == InitDedup /\ [][NextDedup]_vars

\* The periodic batch over a registry of two games that the periodic scan
\* replaces, on a disk that changes.
InitBatch ==
    Init /\ dirExists /\ metaService = "up" /\ dir = TwoGames
         /\ dedupFile.kind = "nofile"

NextBatch ==
    \/ \E p \in {"pscan"} : ScanStep(p)
    \/ PeriodicScanTick
    \/ \E p \in {"pupload"} : UploadStep(p)
    \/ \E p \in {"pupload"} : BatchStep(p)
    \/ PeriodicUploadTick
    \/ PeriodicUploadWake
    \/ BlobChange
    \/ FileChange

SpecBatch == InitBatch /\ [][NextBatch]_vars

\* the periodic batch over two games whose manifest blobs come and go while
\* the descriptors stay as they are
NextBlobs ==
    \/ \E p \in {"pscan"} : ScanStep(p)
    \/ PeriodicScanTick
    \/ \E p \in {"pupload"} : UploadStep(p)
    \/ \E p \in {"pupload"} : BatchStep(p)
    \/ PeriodicUploadTick
    \/ PeriodicUploadWake
    \/ BlobChange

SpecBlobs == InitBatch /\ [][NextBlobs]_vars

\* the periodic batch over two games whose descriptors are rewritten, so
\* that the scans replace the registry by other records while a batch runs
NextSnap ==
    \/ \E p \in {"pscan"} : ScanStep(p)
    \/ PeriodicScanTick
    \/ \E p \in {"pupload"} : UploadStep(p)
    \/ \E p \in {"pupload"} : BatchStep(p)
    \/ PeriodicUploadTick
    \/ PeriodicUploadWake
    \/ FileChange

SpecSnap == InitBatch /\ [][NextSnap]_vars

\* both loops over one game beside commands that take the mutexes
\* (set_settings takes the mutex get_settings takes),
\* the uploads at the grain of their critical sections
InitPending ==
    /\ Init
    /\ dirExists
    /\ metaService = "up"
    /\ dir = OneGame
    /\ dedupFile.kind = "nofile"

NextPending ==
    \/ ScanStep("pscan")
    \/ PeriodicScanTick
    \/ \E p \in {"pupload", "upone"} : UploadPrepare(p)
    \/ \E p \in {"pupload", "upone"} : UploadSend(p)
    \/ \E p \in {"pupload", "upone"} : UploadRespond(p)
    \/ \E p \in {"pupload", "upone"} : UploadClassifyLocked(p)
    \/ \E p \in {"pupload", "upone"} : UploadSaveDedup(p)
    \/ \E p \in {"pupload", "upone"} : BatchDone(p)
    \/ BatchStep("pupload")
    \/ UploadManifest
    \/ UploadManifestFind
    \/ PeriodicUploadTick
    \/ PeriodicUploadWake
    \/ GetInstalledGames
    \/ GetInstalledGamesReturn
    \/ GetSettings
    \/ GetSettingsReturn
    \/ ClearUploadedManifests

SpecPending == InitPending /\ [][NextPending]_vars

\* the same system with the progress the runtime gives its tasks: a task that
\* can take a step takes it (timers fire, requests end, the scan gives the
\* registry mutex back), and a task that waits for the registry mutex gets it
\* once it is free often enough
FairBlobs ==
    /\ WF_vars(UploadStep("pupload"))
    /\ WF_vars(PeriodicUploadTick)
    /\ WF_vars(PeriodicUploadWake)
    /\ SF_vars(BatchLock("pupload"))
    /\ WF_vars(BatchSnapshot("pupload"))
    /\ WF_vars(RegFill("pscan"))

SpecRetry == InitBatch /\ [][NextBlobs]_vars /\ FairBlobs

\* the two scheduler loops and the settings they read: one game is
\* installed, the user interface stores new settings at any moment
InitTimers ==
    /\ Init
    /\ dirExists
    /\ metaService = "up"
    /\ dir = OneGame
    /\ dedupFile.kind = "nofile"

NextTimers ==
    \/ ScanStep("pscan")
    \/ PeriodicScanTick
    \/ UploadStep("pupload")
    \/ BatchStep("pupload")
    \/ PeriodicUploadTick
    \/ PeriodicUploadWake
    \/ SetSettings("setter")
    \/ SetSettingsSave("setter")
    \/ SetSettingsPanic("setter")
    \/ SetSettingsFails("setter")

SpecTimers == InitTimers /\ [][NextTimers]_vars

\* the periodic scan and scan_games_now over two games, with a metadata
\* service that fails, recovers, and changes what it answers
InitMeta ==
    /\ Init
    /\ dirExists
    /\ dir = TwoGames
    /\ dedupFile.kind = "nofile"

NextMeta ==
    \/ \E p \in {"pscan", "scannow"} : ScanStep(p)
    \/ PeriodicScanTick
    \/ ScanGamesNow
    \/ MetaServiceChange

SpecMeta == InitMeta /\ [][NextMeta]_vars

\* the operations that change what is persisted, together: the command
\* upload_all_manifests over the registry the initial scan filled,
\* clear_uploaded_manifests, and two invocations of set_settings; every file
\* write succeeds
InitPersist ==
    /\ Init
    /\ dirExists
    /\ metaService = "up"
    /\ dir = OneGame

NextPersist ==
    \/ ScanStep("init")
    \/ UploadStep("upall")
    \/ BatchStep("upall")
    \/ UploadAllManifests
    \/ ClearUploadedManifests
    \/ \E p \in SetterProcs : SetSettings(p) \/ SetSettingsSave(p)

SpecPersist == InitPersist /\ [][NextPersist]_vars

-----------------------------------------------------------------------------
(* Properties *)

Last(q) == q[Len(q)]

\* the step in which upload p passes the dedup check and goes on to the request
PassesDedupCheck(p) == pc[p] = "prepare" /\ pc'[p] = "send"

\* the step in which upload p, its response received, returns
ReturnsFromResponse(p) == pc[p] = "classify" /\ pc'[p] = "prepare"

\* C1: the periodic upload loop never sends the upload request for a hash
\* that is in the dedup set at the moment the request is sent.
C1_PeriodicNeverSendsKnownHash ==
    [][(pc["pupload"] = "send" /\ pc'["pupload"] = "wait")
            => hash["pupload"] \notin uploaded]_vars

C5_NonSuccessClassified ==
    [][\A p \in UploadProcs :
        (ReturnsFromResponse(p) /\ resp[p].sent /\ ~IsSuccess(resp[p].status)) =>
            LET out == Last(results'[p]) IN
            IF Contains(resp[p].text, Phrase)
            THEN /\ out.status = "already_uploaded"
                 /\ hash[p] \in uploaded'
            ELSE /\ out.status = "failed"
                 /\ out.message = resp[p].text
                 /\ uploaded' = uploaded]_vars

\* one upload returned already_uploaded from a duplicate-content response and
\* another returned failed with the body of its response
C5_Witness ==
    \E p, q \in UploadProcs :
        /\ results[p] # <<>>
        /\ Last(results[p]).ok
        /\ Last(results[p]).status = "already_uploaded"
        /\ Last(results[p]).message = <<"Manifest with identical content already exists">>
        /\ Last(results[p]).manifest_hash[1] \in uploaded
        /\ results[q] # <<>>
        /\ Last(results[q]).ok
        /\ Last(results[q]).status = "failed"
        /\ Last(results[q]).message = <<"A", "manifest", "file", "already", "exists">>

LoopOver(p) == pc[p] = "prepare" /\ idx[p] > Len(snapshot[p])

\* the status the batch pushes for a record whose manifest blob cannot be read
BlobErrStatus == OkStatus("failed", BlobReadErr, NoneOpt)

\* the record's descriptor can be read and its manifest blob cannot
BlobUnreadable(game) ==
    ReadFile(ItemPath(game)).kind # "nofile" /\ ~BlobReadable(game)

\* C7: a batch whose loop is over holds one status per record of its snapshot;
\* on a disk that did not change since the snapshot, the statuses that report
\* the blob read error are exactly those of the records whose blob is
\* unreadable, whatever their place in the batch; and the step that pushes such
\* a status changes nothing the other records' uploads depend on (dedup set,
\* dedup file) and moves the loop to the next record.
C7_PartialFailureIsolated ==
    /\ [](\A p \in BatchProcs :
            LoopOver(p) =>
                /\ Len(results[p]) = Len(snapshot[p])
                /\ began[p] = diskChanges =>
                     \A i \in 1..Len(snapshot[p]) :
                        (results[p][i] = BlobErrStatus) <=> BlobUnreadable(snapshot[p][i]))
    /\ [][\A p \in BatchProcs :
            (results'[p] = Append(results[p], BlobErrStatus)) =>
                /\ uploaded' = uploaded
                /\ dedupFile' = dedupFile
                /\ acked' = acked
                /\ idx'[p] = idx[p] + 1
                /\ pc'[p] = "prepare"]_vars

\* a batch of two records is over: the first failed on its blob, the second,
\* processed after it, was uploaded
C7_Witness ==
    /\ LoopOver("pupload")
    /\ began["pupload"] = diskChanges
    /\ Len(snapshot["pupload"]) = 2
    /\ Len(results["pupload"]) = 2
    /\ results["pupload"][1] = BlobErrStatus
    /\ results["pupload"][2].status = "uploaded"
    /\ ~BlobUnreadable(snapshot["pupload"][2])

\* what uploading the record can return to the batch, on the disk as it is
IsOutcomeOf(status, game) ==
    LET item == ReadFile(ItemPath(game)) IN
    IF item.kind = "nofile" THEN status = OkStatus("failed", ItemReadErr, NoneOpt)
    ELSE IF ~BlobReadable(game) THEN status = BlobErrStatus
    ELSE IF item.kind = "badjson" THEN status = OkStatus("failed", ItemParseErr, NoneOpt)
    ELSE IF "ManifestHash" \notin DOMAIN item.doc
         THEN status = OkStatus("failed", NoHashErr, NoneOpt)
    ELSE \/ status = OkStatus("failed", SendErr, NoneOpt)
         \/ /\ status.manifest_hash = Some(item.doc["ManifestHash"])
            /\ status.status \in {"uploaded", "already_uploaded", "failed"}

\* C8: a batch has gathered one status per record it has processed, never more
\* than its snapshot holds and exactly as many once its loop is over; on a disk
\* that did not change since the snapshot, the i-th status is an outcome of the
\* snapshot's i-th record; whatever the scans do to the registry meanwhile.
C8_StatusesFollowSnapshot ==
    \A p \in BatchProcs :
        /\ Len(results[p]) = idx[p] - 1
        /\ Len(results[p]) <= Len(snapshot[p])
        /\ LoopOver(p) => Len(results[p]) = Len(snapshot[p])
        /\ began[p] = diskChanges =>
             \A i \in 1..Len(results[p]) : IsOutcomeOf(results[p][i], snapshot[p][i])

\* a batch of two records is over with two different statuses, and a scan has
\* replaced the registry since the snapshot was taken
C8_Witness ==
    /\ LoopOver("pupload")
    /\ began["pupload"] = diskChanges
    /\ Len(snapshot["pupload"]) = 2
    /\ Len(results["pupload"]) = 2
    /\ results["pupload"][1] # results["pupload"][2]
    /\ gamesLock = Free
    /\ Values(games) # Range(snapshot["pupload"])

\* the tasks and commands that read the registry, and those that replace it
Readers   == {"reader"} \cup UploadProcs
Replacers == {"pscan", "scannow"}

\* the registry is the whole output of one scan, or empty before any scan
OneScan(map) == IF scans = {} THEN map = EmptyMap ELSE map \in scans

\* C3: whenever a reader holds the registry (get_installed_games, the upload
\* snapshot, the lookup of upload_manifest), the registry is as the last
\* replacement left it: the whole output of one scan, neither the cleared map
\* nor a map half refilled.
C3_ReaderSeesWholeScan ==
    gamesLock \in Readers => (games = committed /\ OneScan(games))

\* get_installed_games holds the registry, which is not empty, while a scan
\* that found other records waits to replace it
C3_Witness ==
    /\ gamesLock = "reader"
    /\ games # EmptyMap
    /\ \E p \in Replacers :
        /\ pc[p] = "files"
        /\ todo[p] = {}
        /\ InsertAll(EmptyMap, scanned[p]) # games

\* C4: whenever the registry lock is free, the registry is the output of one
\* single completed scan, or empty before any scan.
C4_RegistryIsOneScan == gamesLock = Free => OneScan(games)

\* C9: a scan begun while the manifests directory does not exist fails with
\* the not-found error; a failed scan leaves the registry and its lock as they
\* were, in the periodic loop and in scan_games_now; a scan of an existing
\* directory never fails with not-found, and when it reaches the registry over
\* a directory without descriptor files it does so with success and no record.
C9_MissingDirIsError ==
    /\ [][\A p \in Replacers :
            (pc[p] = "scan" /\ pc'[p] # "scan") =>
                IF dirExists
                THEN ret'[p] # NotFound
                ELSE /\ pc'[p] = "failed"
                     /\ ret'[p] = NotFound
                     /\ games' = games
                     /\ gamesLock' = gamesLock]_vars
    /\ [][\A p \in Replacers :
            (pc[p] = "failed" /\ pc'[p] # "failed") =>
                /\ pc'[p] = EndOf(p)
                /\ games' = games
                /\ gamesLock' = gamesLock]_vars
    /\ [](\A p \in Replacers :
            (pc[p] = "fill" /\ began[p] = diskChanges /\ Descriptors(Listing) = {}) =>
                (ret[p] = "ok" /\ scanned[p] = <<>>))

\* both scanners have failed on the missing directory and the registry still
\* holds the records of an earlier scan
C9_Witness ==
    /\ ~dirExists
    /\ games # EmptyMap
    /\ gamesLock = Free
    /\ \A p \in Replacers : pc[p] = "failed" /\ ret[p] = NotFound

\* the descriptor files that can be read and parse with every required field
ParsingFiles == {f \in Descriptors(Listing) : ParsesAsManifest(ReadFile(f))}

\* the record was built from the descriptor file
IsRecordOf(game, f) ==
    /\ game.installation_guid = ReadFile(f).doc["InstallationGuid"]
    /\ game.app_name = ReadFile(f).doc["AppName"]
    /\ game.catalog_item_id = ReadFile(f).doc["CatalogItemId"]
    /\ game.manifest_hash = ReadFile(f).doc["ManifestHash"]

\* C10: a scan that returns its list, over a disk that did not change since
\* the directory was listed, returns one record for each descriptor file that
\* is readable and parses and no other record; and a scan that returns an
\* error returns one of the directory errors, never an error about a file.
C10_OneRecordPerParsingFile ==
    \A p \in ScanProcs :
        /\ (pc[p] = "fill" /\ began[p] = diskChanges) =>
                /\ Len(scanned[p]) = Cardinality(ParsingFiles)
                /\ \A f \in ParsingFiles :
                      \E i \in 1..Len(scanned[p]) : IsRecordOf(scanned[p][i], f)
        /\ pc[p] = "failed" => ret[p] \in {NotFound, ListErr, EntryErr}

\* a scan over two descriptor files, one of which does not parse, returns the
\* one record
C10_Witness ==
    \E p \in ScanProcs :
        /\ pc[p] = "fill"
        /\ began[p] = diskChanges
        /\ ret[p] = "ok"
        /\ Cardinality(Descriptors(Listing)) = 2
        /\ Cardinality(ParsingFiles) = 1
        /\ Len(scanned[p]) = 1

\* C11: a scan returns an error only when the manifests directory is absent;
\* a failure to list the directory or to read one of its entries does not
\* make the scan fail.
C11_OnlyAbsenceFailsScan ==
    \A p \in ScanProcs : pc[p] = "failed" => ret[p] = NotFound

\* a tick of the upload loop that goes on to its sleep
UploadTickTaken == pc["pupload"] = "tick" /\ pc'["pupload"] = "sleep"

\* C12: whatever upload interval set_settings stored while the upload loop was
\* waiting, the loop does not crash, its next tick computes its sleep from the
\* interval that is in the settings at that tick, and one tick starts one
\* batch: a batch begins only from the sleep of a tick, a sleep only from a
\* tick.
C12_UploadIntervalHotReload ==
    /\ [](pc["pupload"] # "panicked")
    /\ [][UploadTickTaken =>
            next_upload' = settings.upload_interval * SecondsPerHour]_vars
    /\ [][/\ (pc'["pupload"] = "sleep" /\ pc["pupload"] # "sleep")
                => pc["pupload"] = "tick"
          /\ (pc'["pupload"] = "snapshot" /\ pc["pupload"] # "snapshot")
                => pc["pupload"] = "sleep"]_vars

\* a tick of the scan loop that goes on to its scan
ScanTickTaken == pc["pscan"] = "tick" /\ pc'["pscan"] = "scan"

\* C13: on every tick of the scan loop the interval is read from the settings
\* and the timer the loop goes on with has that period; and every tick comes
\* one period after the one before: the tick that follows an iteration which
\* rebuilt the timer does not complete at once, so no scan follows another
\* without an interval between them.
C13_RebuildFiresOnce ==
    [][ScanTickTaken =>
          /\ current_interval_minutes' = settings.scan_interval_minutes
          /\ interval'.period = settings.scan_interval_minutes * SecondsPerMinute
          /\ ~interval.fresh]_vars

\* C14: neither scheduler loop ever stops: whatever settings set_settings
\* stored (an interval of 0 included) and whatever error a scan, an upload or
\* a lock returned, no loop's task has ended in a panic.
C14_LoopsNeverStop ==
    \A p \in LoopProcs : pc[p] # "panicked" /\ panics[p] = "none"

\* C15: a settings mutex that cannot be locked fails only the operation that
\* tried to lock it; the scheduler loops skip the cycle and stay alive.
C15_LockFailureIsLocal ==
    "settings" \in poisoned => \A p \in LoopProcs : panics[p] # PoisonedUnwrap

\* C16: no mutex is held while a file is written: set_settings is not at its
\* write of settings.json while it holds the settings mutex.
C16_NoLockHeldDuringIO ==
    pc["setter"] = "save" => settingsLock # "setter"

\* C20: the settings change only in the step in which set_settings stores its
\* argument; every other step of the loops, the scans and the uploads leaves
\* them as they are; and each tick of either loop takes its interval from the
\* settings as they are at that tick.
C20_OnlySetSettingsWrites ==
    /\ [][settings' # settings =>
            pc["setter"] = "idle" /\ pc'["setter"] = "save"]_vars
    /\ [][ScanTickTaken =>
            current_interval_minutes' = settings.scan_interval_minutes]_vars
    /\ [][UploadTickTaken =>
            next_upload' = WrappingMul(settings.upload_interval, SecondsPerHour)]_vars

\* both loops run on intervals that set_settings stored after the start
C20_Witness ==
    /\ settings.upload_interval = 0
    /\ settings.scan_interval_minutes = 2
    /\ pc["pupload"] = "sleep"
    /\ next_upload = settings.upload_interval * SecondsPerHour
    /\ pc["pscan"] = "scan"
    /\ current_interval_minutes = settings.scan_interval_minutes
    /\ interval.period = 2 * SecondsPerMinute

\* the step in which upload p, returning from a 2xx response or from a
\* response whose body has the duplicate-content phrase, adds its hash
AddsAfterResponse(p) ==
    /\ ReturnsFromResponse(p)
    /\ resp[p].sent
    /\ IsSuccess(resp[p].status) \/ Contains(resp[p].text, Phrase)
    /\ uploaded' = uploaded \cup {hash[p]}

ChecksHash(p, h) ==
    /\ pc[p] = "prepare"
    /\ idx[p] <= Len(snapshot[p])
    /\ pc'[p] = "send" \/ Len(results'[p]) = Len(results[p]) + 1
    /\ LET game == snapshot[p][idx[p]]
           item == ReadFile(ItemPath(game))
       IN  /\ item.kind = "json"
           /\ BlobReadable(game)
           /\ "ManifestHash" \in DOMAIN item.doc
           /\ item.doc["ManifestHash"] = h

\* C18: every hash the dedup file holds is a member of the dedup set, in
\* every state and so in the states that follow a start of the process, where
\* the set is what was loaded from the file; while no file exists the set is
\* empty; and an upload whose dedup check meets a persisted hash returns
\* already_uploaded without going on to the request.
C18_PersistedHashesSurviveReload ==
    /\ [](dedupFile.kind = "json" => Range(dedupFile.arr) = uploaded)
    /\ [](dedupFile.kind = "nofile" => uploaded = {})
    /\ [][\A p \in UploadProcs :
            \A h \in (IF dedupFile.kind = "json" THEN Range(dedupFile.arr) ELSE {}) :
                ChecksHash(p, h) =>
                    /\ pc'[p] # "send"
                    /\ Last(results'[p]).ok
                    /\ Last(results'[p]).status = "already_uploaded"
                    /\ Last(results'[p]).manifest_hash = Some(h)]_vars

\* after the dedup set was cleared a hash was recorded and persisted, and the
\* process has been started again since: the registry is empty with its mutex
\* free, every task is where run() puts it, and the hash is in the set
C18_Witness ==
    /\ cleared # {}
    /\ acked # {}
    /\ acked \subseteq uploaded
    /\ dedupFile.kind = "json"
    /\ acked \subseteq Range(dedupFile.arr)
    /\ games = EmptyMap
    /\ gamesLock = Free
    /\ pc = StartPc

\* C19: the metadata cache never evicts: every catalog item id that has an
\* entry before a step has an entry after it.
C19_CacheKeysOnlyGrow ==
    [][DOMAIN metadata_cache \subseteq DOMAIN metadata_cache']_vars

\* the cache holds the metadata of two catalog items, fetched one after the
\* other
C19_Witness ==
    /\ Cardinality(DOMAIN metadata_cache) = 2
    /\ \E p \in ScanProcs : pc[p] = "files" /\ Len(scanned[p]) = 2

\* the step in which scan p visits the descriptor file f, which parses and
\* whose catalog item id has a cache entry
VisitsCached(p, f) ==
    /\ pc[p] = "files"
    /\ pc'[p] \in {"files", "fetch"}
    /\ f \in todo[p]
    /\ todo'[p] = todo[p] \ {f}
    /\ ParsesAsManifest(ReadFile(f))
    /\ ReadFile(f).doc["CatalogItemId"] \in DOMAIN metadata_cache

\* C21: a metadata fetch for a catalog item id that has a cache entry makes no
\* request: the scan stays in its loop over the files, the record it pushes
\* carries the cached entry, and the cache is left as it was; and the cache
\* mutex is free whenever a metadata request is outstanding.
C21_CachedFetchIsLocal ==
    /\ [][\A p \in ScanProcs : \A f \in FileNames :
            VisitsCached(p, f) =>
                LET m == ReadFile(f).doc IN
                /\ pc'[p] = "files"
                /\ scanned'[p] =
                      Append(scanned[p],
                             GameInfoOf(m, Some(metadata_cache[m["CatalogItemId"]])))
                /\ metadata_cache' = metadata_cache]_vars
    /\ []((\E p \in ScanProcs : pc[p] = "fetch") => cacheLock = Free)

\* the registry holds a record with its metadata, left by a completed scan,
\* and a later scan has built the same record from the cache while the other
\* scanner is at rest
C21_Witness ==
    /\ gamesLock = Free
    /\ pc["scannow"] = "idle"
    /\ pc["pscan"] = "files"
    /\ todo["pscan"] = {}
    /\ Len(scanned["pscan"]) = 1
    /\ scanned["pscan"][1].metadata # NoneOpt
    /\ scanned["pscan"][1].catalog_item_id \in DOMAIN metadata_cache
    /\ scanned["pscan"][1].metadata = Some(metadata_cache[scanned["pscan"][1].catalog_item_id])
    /\ Values(games) = {scanned["pscan"][1]}
    /\ Cardinality(Descriptors(Listing)) = 2

\* the step in which the metadata request of scan p is over
FetchReturns(p) == pc[p] = "fetch" /\ pc'[p] = "files"

\* the step in which scan p visits the descriptor file f, which parses and
\* whose catalog item id has no cache entry
VisitsUncached(p, f) ==
    /\ pc[p] = "files"
    /\ pc'[p] \in {"files", "fetch"}
    /\ f \in todo[p]
    /\ todo'[p] = todo[p] \ {f}
    /\ ParsesAsManifest(ReadFile(f))
    /\ ReadFile(f).doc["CatalogItemId"] \notin DOMAIN metadata_cache

\* C22: a metadata request that ends while the service fails (no answer, a
\* non-2xx status, a body that does not decode) leaves the cache as it was and
\* makes the scan push the record of the file with no metadata; an id without
\* a cache entry is requested again by the next visit; and a scan that returns
\* its list returns a record for every descriptor that parses, whatever the
\* service answered.
C22_FailedFetchNotCached ==
    /\ [][\A p \in ScanProcs :
            (FetchReturns(p) /\ metaService = "down") =>
                /\ metadata_cache' = metadata_cache
                /\ scanned'[p] = Append(scanned[p], GameInfoOf(cur[p][1], NoneOpt))]_vars
    /\ [][\A p \in ScanProcs : \A f \in FileNames :
            VisitsUncached(p, f) =>
                /\ pc'[p] = "fetch"
                /\ cur'[p] = Some(ReadFile(f).doc)]_vars
    /\ [](\A p \in ScanProcs :
            (pc[p] = "fill" /\ began[p] = diskChanges) =>
                Len(scanned[p]) = Cardinality(ParsingFiles))

\* a completed scan left a record without metadata in the registry, and a
\* later fetch for the same catalog item succeeded: the periodic scan now
\* holds that game's record with metadata
C22_Witness ==
    /\ gamesLock = Free
    /\ pc["scannow"] = "idle"
    /\ pc["pscan"] = "files"
    /\ Len(scanned["pscan"]) = 2
    /\ \E g \in Values(games) :
        /\ g.metadata = NoneOpt
        /\ g.catalog_item_id \in DOMAIN metadata_cache
        /\ \E i \in 1..2 :
            /\ scanned["pscan"][i].app_name = g.app_name
            /\ scanned["pscan"][i].metadata = Some(metadata_cache[g.catalog_item_id])

\* C23: two scans may have a request outstanding for the same uncached id,
\* and neither waits for the other: the step that ends a request is enabled
\* whenever the request is outstanding (the cache mutex is free).  Every
\* request that ends returns a result to its scan (a record is pushed); when
\* the result is metadata, the cache entry of the id is that metadata after
\* the step, whatever another request had inserted before, and no other entry
\* changes; when the result is no metadata, the cache is left as it was.  So
\* after both requests ended the id has the one entry inserted last.
C23_LastWriteWins ==
    /\ [](\A p \in ScanProcs : pc[p] = "fetch" => cacheLock = Free)
    /\ [][\A p \in ScanProcs :
            FetchReturns(p) =>
                LET c   == cur[p][1]["CatalogItemId"]
                    out == Last(scanned'[p])
                IN  /\ Len(scanned'[p]) = Len(scanned[p]) + 1
                    /\ out.catalog_item_id = c
                    /\ IF out.metadata = NoneOpt
                       THEN metadata_cache' = metadata_cache
                       ELSE /\ c \in DOMAIN metadata_cache'
                            /\ metadata_cache'[c] = out.metadata[1]
                            /\ DOMAIN metadata_cache' = DOMAIN metadata_cache \cup {c}
                            /\ \A k \in DOMAIN metadata_cache :
                                  k # c => metadata_cache'[k] = metadata_cache[k]]_vars

\* the periodic scan and scan_games_now both requested the metadata of one
\* catalog item and got different answers; the cache holds the answer of
\* scan_games_now, the other scan's answer having been inserted and replaced
\* or never having been the last
C23_Witness ==
    /\ pc["pscan"] = "files"
    /\ pc["scannow"] = "files"
    /\ \E i \in 1..Len(scanned["pscan"]), j \in 1..Len(scanned["scannow"]) :
        LET a == scanned["pscan"][i]
            b == scanned["scannow"][j]
        IN  /\ a.catalog_item_id = b.catalog_item_id
            /\ a.metadata # NoneOpt
            /\ b.metadata # NoneOpt
            /\ a.metadata # b.metadata
            /\ metadata_cache[a.catalog_item_id] = b.metadata[1]

\* the status the batch pushes for a record whose request could not be sent
SendErrStatus == OkStatus("failed", SendErr, NoneOpt)

\* C24: when send().await ends with an error (no response arrived), the upload
\* returns Err with the send error text and not a status; the step leaves the
\* dedup set and its file as they were; the batch pushes for it one status
\* failed whose message is that text and which carries no hash, and moves on
\* to the next record of its snapshot.
C24_SendErrorBecomesFailed ==
    [][\A p \in BatchProcs :
        (ReturnsFromResponse(p) /\ ~resp[p].sent) =>
            /\ ~Classified(resp[p], hash[p]).ok
            /\ Classified(resp[p], hash[p]).err = SendErr
            /\ uploaded' = uploaded
            /\ dedupFile' = dedupFile
            /\ results'[p] = Append(results[p], SendErrStatus)
            /\ idx'[p] = idx[p] + 1
            /\ pc'[p] = "prepare"]_vars

\* a batch of two records is over: the request of the first could not be
\* sent, the second, processed after it, was uploaded, and only the second
\* hash is in the dedup set
C24_Witness ==
    /\ LoopOver("pupload")
    /\ Len(snapshot["pupload"]) = 2
    /\ Len(results["pupload"]) = 2
    /\ results["pupload"][1] = SendErrStatus
    /\ results["pupload"][2].status = "uploaded"
    /\ uploaded = {snapshot["pupload"][2].manifest_hash}

Hashes == {"h1", "h2"}

\* the batch of the upload loop holds a status failed for the hash: a request
\* was made for it in this cycle and the server refused it
FailedIn(h) ==
    \E i \in 1..Len(results["pupload"]) :
        /\ results["pupload"][i].status = "failed"
        /\ results["pupload"][i].manifest_hash = Some(h)

\* the upload loop is about to send the request for the hash
Resent(h) == pc["pupload"] = "send" /\ hash["pupload"] = h

\* no record of the registry with this hash has a readable manifest blob
\* (the record left the registry, or its blob left the disk)
NothingToSend(h) ==
    \A g \in Values(committed) : g.manifest_hash = h => ~BlobReadable(g)

\* C25: an upload that returns failed from a response leaves its hash out of
\* the dedup set; one that returns from a 2xx or duplicate-content response
\* has put it in; a dedup check in the upload loop for a readable record whose
\* hash is not in the set goes on to the request; and a hash the loop holds a
\* failed status for is sent again by the loop in a later cycle, unless by then
\* the hash is in the dedup set or no record with a readable blob has it.
C25_FailedIsRetried ==
    /\ [][\A p \in BatchProcs :
            ReturnsFromResponse(p) =>
                IF Last(results'[p]).status = "failed"
                THEN uploaded' = uploaded /\ hash[p] \notin uploaded'
                ELSE hash[p] \in uploaded']_vars
    /\ [][\A h \in Hashes :
            (ChecksHash("pupload", h) /\ h \notin uploaded) =>
                (pc'["pupload"] = "send" /\ hash'["pupload"] = h)]_vars
    /\ \A h \in Hashes :
            FailedIn(h) ~> (Resent(h) \/ h \in uploaded \/ NothingToSend(h))

\* the upload loop is sending the request for h1 in a cycle whose first record
\* stopped at the dedup check with h2: h2 was uploaded in an earlier cycle,
\* whose snapshot held both records of this unchanged disk, and in that cycle
\* the upload of h1 ended failed, h1 never having entered the dedup set
C25_Witness ==
    /\ Resent("h1")
    /\ results["pupload"] =
          <<OkStatus("already_uploaded", <<"Manifest already uploaded">>, Some("h2"))>>
    /\ uploaded = {"h2"}
    /\ acked = {"h2"}
    /\ blobs = Guids
    /\ diskChanges = 0

\* C26: what is persisted is what is in memory.  The dedup file, read as the
\* process reads it at start, gives the in-memory set in every state (its
\* mutex is free between steps), and a step that changes the set leaves a
\* file that holds exactly the new set.  Whenever the settings mutex is free,
\* the settings file, read as at start, gives the in-memory settings, and once
\* written it holds exactly them; a step that writes it writes the settings
\* that are in memory.  With uploads, clear_uploaded_manifests and two
\* set_settings running together, every write succeeding.
C26_PersistedEqualsMemory ==
    /\ [](LoadUploaded(dedupFile) = uploaded)
    /\ [][uploaded' # uploaded =>
            (dedupFile'.kind = "json" /\ Range(dedupFile'.arr) = uploaded')]_vars
    /\ [](settingsLock = Free =>
            /\ LoadSettings(settingsFile) = settings
            /\ settingsFile # <<>> => settingsFile = <<settings>>)
    /\ [][settingsFile' # settingsFile => settingsFile' = <<settings'>>]_vars

\* both invocations of set_settings have returned, the second having replaced
\* what the first stored, and the dedup set was filled, cleared and filled
\* again; the files hold the settings and the set that are in memory
C26_Witness ==
    /\ settingsLock = Free
    /\ \A p \in SetterProcs : pc[p] = "idle" /\ events[p] = "ok"
    /\ settings # DefaultSettings
    /\ settingsFile = <<settings>>
    /\ cleared # {}
    /\ uploaded # {}
    /\ dedupFile.kind = "json"
    /\ Range(dedupFile.arr) = uploaded

\* the step in which the periodic scan refills the registry it cleared, drops
\* the guard and emits
PeriodicReplaces == pc["pscan"] = "fill" /\ pc'["pscan"] = "tick"

\* C27: when the periodic scan has replaced the registry, it emits
\* games-updated if the number of entries the registry had when the scan took
\* its mutex differs from the number it has after the refill, and otherwise
\* reports no changes, whatever the entries are; and games-updated is emitted
\* by the periodic scan in no other step.
C27_EventIffCountChanged ==
    /\ [][PeriodicReplaces =>
            /\ games' = InsertAll(EmptyMap, scanned["pscan"])
            /\ events'["pscan"] =
                  IF Cardinality(DOMAIN committed) # Cardinality(DOMAIN games')
                  THEN "games-updated"
                  ELSE "no-changes"]_vars
    /\ [][(events'["pscan"] = "games-updated" /\ events["pscan"] # "games-updated")
            => PeriodicReplaces]_vars

\* the periodic scan is replacing a registry of one record by one record of
\* another game: it holds the mutex, the registry is cleared, the counts it
\* will compare are equal
C27_Witness ==
    /\ pc["pscan"] = "fill"
    /\ gamesLock = "pscan"
    /\ Cardinality(DOMAIN committed) = 1
    /\ old_count["pscan"] = 1
    /\ Len(scanned["pscan"]) = 1
    /\ Values(committed) # Range(scanned["pscan"])
    /\ \A g \in Values(committed) : g.app_name # scanned["pscan"][1].app_name


\* C28: an upload batch works on the records the registry held when the batch
\* cloned it under the registry lock: the clone is one whole registry, each
\* record once; until the loop over the clone is over no step changes the
\* clone, whatever the scans do to the registry; every status the batch pushes
\* is pushed for the next record of the clone (and is an outcome of uploading
\* that record when the disk has not changed since the clone was taken); and
\* when the loop is over there is one status for every record of the clone.
C28_BatchIsItsSnapshot ==
    /\ [][\A p \in BatchProcs :
            (pc[p] = "clone" /\ pc'[p] = "prepare") =>
                /\ gamesLock = p
                /\ games = committed
                /\ Range(snapshot'[p]) = Values(games)
                /\ Len(snapshot'[p]) = Cardinality(DOMAIN games)]_vars
    /\ [][\A p \in BatchProcs :
            snapshot'[p] # snapshot[p] => (pc[p] = "clone" \/ LoopOver(p))]_vars
    /\ [][\A p \in BatchProcs :
            (results'[p] # results[p] /\ results'[p] # <<>>) =>
                /\ idx[p] \in 1..Len(snapshot[p])
                /\ idx'[p] = idx[p] + 1
                /\ Len(results'[p]) = Len(results[p]) + 1
                /\ SubSeq(results'[p], 1, Len(results[p])) = results[p]
                /\ began[p] = diskChanges =>
                     IsOutcomeOf(results'[p][idx[p]], snapshot[p][idx[p]])]_vars
    /\ [](\A p \in BatchProcs :
            LoopOver(p) => Len(results[p]) = Len(snapshot[p]))

\* the periodic batch has pushed a status for each of its two records, and a
\* scan has meanwhile replaced the registry: one record of the batch is gone
\* from the registry and the registry holds a record the batch never had
C28_Witness ==
    /\ LoopOver("pupload")
    /\ Len(snapshot["pupload"]) = 2
    /\ Len(results["pupload"]) = 2
    /\ gamesLock = Free
    /\ games = committed
    /\ \E g \in Range(snapshot["pupload"]) : g \notin Values(games)
    /\ \E g \in Values(games) : g \notin Range(snapshot["pupload"])

\* a request of the loop is outstanding: the upload's send().await, the
\* metadata fetch's send().await
NetworkPending(p) == pc[p] \in {"wait", "fetch"}

\* the loop is in a filesystem operation: the scan reads the manifests
\* directory and its files, the upload reads the descriptor and the blob, the
\* upload writes the dedup file
FilePending(p) == pc[p] \in {"files", "prepare", "record"}

\* the mutexes the task holds
HeldBy(p) ==
    {m \in {"games", "settings", "cache", "uploaded"} :
        \/ m = "games" /\ gamesLock = p
        \/ m = "settings" /\ settingsLock = p
        \/ m = "cache" /\ cacheLock = p
        \/ m = "uploaded" /\ UploadedLockHolder = p}

\* C29: while a network or filesystem operation of a loop is pending, the
\* loop holds no mutex, so the other loop and every command can take the
\* mutex they need and return.
C29_PendingIoBlocksNobody ==
    \A p \in LoopProcs : (NetworkPending(p) \/ FilePending(p)) => HeldBy(p) = {}

\* the app keys of a scanned list, and the last record of the list with a key
AppKeys(list) == {list[i].app_name : i \in 1..Len(list)}
LastWith(list, k) ==
    list[CHOOSE i \in 1..Len(list) :
            /\ list[i].app_name = k
            /\ \A j \in (i + 1)..Len(list) : list[j].app_name # k]

\* the step in which a scan that replaces the registry refills and releases it
Refills(p) == pc[p] = "fill" /\ pc'[p] # "fill"

\* C30: when periodic_scan or scan_games_now has replaced the registry, the
\* registry has one entry for each distinct app key of the scanned list, each
\* entry is the last record of the list with that key and is stored under its
\* own app key, and the size of the registry is at most the length of the
\* scanned list, which is the list the games-updated event carries; whenever
\* the registry is not locked every entry is stored under its record's key.
C30_RegistryKeyedByApp ==
    /\ [][\A p \in Replacers : Refills(p) =>
            /\ DOMAIN games' = AppKeys(scanned[p])
            /\ \A k \in DOMAIN games' :
                /\ games'[k] = LastWith(scanned[p], k)
                /\ games'[k].app_name = k
            /\ Cardinality(DOMAIN games') <= Len(scanned[p])
            /\ (\E i, j \in 1..Len(scanned[p]) :
                    i # j /\ scanned[p][i].app_name = scanned[p][j].app_name)
                 => Cardinality(DOMAIN games') < Len(scanned[p])]_vars
    /\ [](gamesLock = Free => \A k \in DOMAIN games : games[k].app_name = k)

\* the descriptor of the second game has been rewritten with the app key of
\* the first, scan_games_now has not been called, and the registry the
\* periodic scan left holds one record: both descriptors have always parsed,
\* so the event games-updated went out with two records for a registry of one
C30_Witness ==
    /\ dir[<<"g1", "item">>] = TwoGames[<<"g1", "item">>]
    /\ ParsesAsManifest(dir[<<"g2", "item">>])
    /\ dir[<<"g2", "item">>].doc["AppName"] = "app1"
    /\ gamesLock = Free
    /\ games = committed
    /\ DOMAIN games = {"app1"}
    /\ events["pscan"] = "games-updated"
    /\ pc["pscan"] = "tick"
    /\ pc["scannow"] = "idle"
    /\ events["scannow"] = "none"

\* C31: at most one upload request per content hash is in flight: the
\* periodic batch and a command (upload_all_manifests, upload_manifest) never
\* wait for the answer to a request for the same hash at the same time (a
\* request is in flight from send() until its answer is received).
C31_OneRequestPerHash ==
    \A q \in UploadProcs \ {"pupload"} :
        (pc["pupload"] = "wait" /\ pc[q] = "wait") => hash["pupload"] # hash[q]

\* the map is what a scan that reads the disk as it is now leaves in the
\* registry: an entry for the app key of every descriptor that parses, and
\* every entry built from such a descriptor
HoldsPresentDisk(map) ==
    /\ \A k \in DOMAIN map : \E f \in ParsingFiles : IsRecordOf(map[k], f)
    /\ \A f \in ParsingFiles : ReadFile(f).doc["AppName"] \in DOMAIN map

\* C32: the registry never goes back to older data: when the registry holds
\* records, those a scan has read from the disk as it is now, a scan that listed the
\* directory before the disk became what it is does not, when it comes to
\* fill the registry, leave it with anything else.
C32_NeverBackToOlderData ==
    [][\A p \in ScanProcs :
        (/\ Refills(p)
         /\ began[p] < diskChanges
         /\ committed # EmptyMap
         /\ HoldsPresentDisk(committed))
            => HoldsPresentDisk(committed')]_vars

\* C33: the upload loop reads the interval once per iteration, at its tick,
\* and then sleeps: the sleep begins only from a tick and lasts no less than
\* the interval read at that tick; while the loop sleeps, whatever
\* set_settings stores, the length of the sleep stays what it was; a batch
\* starts only out of a sleep, so none starts at the start of the process.
C33_BatchAfterIntervalRead ==
    /\ [][UploadTickTaken =>
            next_upload' >= settings.upload_interval * SecondsPerHour]_vars
    /\ [][(pc["pupload"] = "sleep" /\ pc'["pupload"] = "sleep")
            => next_upload' = next_upload]_vars
    /\ [][/\ (pc'["pupload"] = "sleep" /\ pc["pupload"] # "sleep")
                => pc["pupload"] = "tick"
          /\ (pc'["pupload"] = "snapshot" /\ pc["pupload"] # "snapshot")
                => pc["pupload"] = "sleep"]_vars

\* C34: no task or command holds two of the four mutexes; the one that
\* takes a mutex holds none when it takes it (the cache mutex included, which
\* is taken and dropped within one step); and whoever holds a mutex can drop
\* it without any other mutex, so the tasks cannot wait for each other in a
\* cycle.
C34_NoLockTakenWhileHolding ==
    /\ [](\A p \in Procs : Cardinality(HeldBy(p)) <= 1)
    /\ [](\A p \in ScanProcs : pc[p] \in {"files", "fetch"} => HeldBy(p) = {})
    /\ [][\A p \in Procs : HeldBy(p)' \ HeldBy(p) # {} => HeldBy(p) = {}]_vars
    /\ [](\A p \in Procs : HeldBy(p) # {} =>
            ENABLED (\/ p \in ScanProcs /\ RegFill(p)
                     \/ p \in BatchProcs /\ BatchSnapshot(p)
                     \/ p \in UploadProcs /\ UploadSaveDedup(p)
                     \/ p = "upone" /\ UploadManifestFind
                     \/ p = "reader" /\ GetInstalledGamesReturn
                     \/ p = "getter" /\ GetSettingsReturn))

\* three of the mutexes are held at once by three operations, the periodic
\* scan refilling the registry, get_settings, and the periodic upload at its
\* write of the dedup file, while upload_manifest is about to ask for the
\* registry
C34_Witness ==
    /\ gamesLock = "pscan"
    /\ settingsLock = "getter"
    /\ UploadedLockHolder = "pupload"
    /\ pc["upone"] = "idle"
    /\ pc["reader"] = "idle"

====
